---------------------------- MODULE Spec2Model ----------------------------
(***************************************************************************)
(* Stadium Routing Service: hazard-aware A* routing (astar.py), responder  *)
(* dispatch (nearest_responder.py), the API handlers (api_handlers.py) and *)
(* the FastAPI application state (main.py).                                *)
(*                                                                         *)
(* Numbers.  The program computes with floats.  Every float of the model   *)
(* is an exact multiple of 1/ONE and is stored as that integer multiple:   *)
(* a severity 1.0 is ONE, an edge weight of 10.0 metres is 10 * ONE, a     *)
(* path cost of 12.5 is 12 * ONE + ONE \div 2.  Node coordinates are whole *)
(* metres whose pairwise distances are whole numbers, so math.sqrt is      *)
(* exact on them.                                                          *)
(***************************************************************************)
EXTENDS Integers, Sequences, FiniteSets, Bags, TLC

VARIABLES
    GRAPH,              \* main.GRAPH: None or a Graph
    HAZARD_MAP,         \* main.HAZARD_MAP: None or a HazardMap
    STAFF_TRACKER,      \* main.STAFF_TRACKER: None or a StaffTracker
    route_handler,      \* main.route_handler: None or RouteAPIHandler
    emergency_handler,  \* main.emergency_handler: None or EmergencyAPIHandler
    hazard_handler,     \* main.hazard_handler: None or HazardAPIHandler
    started,            \* the startup event handler has run
    mapUp,              \* the Map Service answers GET /api/map
    requests,           \* bag of the HTTP requests suspended at an await (LoopSpec:
                        \* of the tasks ready to run)
    response,           \* the HTTP response sent last, None before the first
    assignLog,          \* staff id -> times returned as assigned on the current tracker
    call                \* the library call made last and what it returned (SearchSpec,
                        \* LoopSpec: the running call and its locals)

vars == <<GRAPH, HAZARD_MAP, STAFF_TRACKER, route_handler, emergency_handler,
          hazard_handler, started, mapUp, requests, response, assignLog, call>>

serviceVars == <<route_handler, emergency_handler, hazard_handler, started,
                 mapUp, requests, response, assignLog>>

----------------------------------------------------------------------------
(* Bounds of the model *)

MaxClosures == 1       \* closed corridors (unordered pairs) held at once
MaxHazards == 2        \* (node, hazard type) entries held at once
MaxStaff == 2          \* staff members registered with a tracker

----------------------------------------------------------------------------
(* Values *)

ONE == 120             \* the float 1.0

Inf == 100000000       \* float('inf')

None == [tag |-> "None"]

NodeIds == {"A", "B", "C", "D"}

UnknownNode == "X"     \* an id no topology has

\* HazardType enum: name -> value
HazardTypes == {"smoke", "crowd", "fire", "spill", "structural"}

HazardValue(hazard_type) ==
    CASE hazard_type = "smoke" -> 5
      [] hazard_type = "crowd" -> 3
      [] hazard_type = "fire" -> 10
      [] hazard_type = "spill" -> 2
      [] hazard_type = "structural" -> 8

EmptyMap == [k \in {} |-> 0]

----------------------------------------------------------------------------
(* Topology snapshots served by the Map Service (GET /api/map) *)

N(id, x, y, level) == [id |-> id, type |-> "normal", x |-> x, y |-> y, level |-> level]

Gate(id, x, y, level) == [id |-> id, type |-> "gate", x |-> x, y |-> y, level |-> level]

E(id, from, to, w) == [id |-> id, from |-> from, to |-> to, w |-> w * ONE]

\* 4-node square, every corridor 10 m in both directions (heuristic <= weight)
SquareTopology ==
    [nodes |-> << N("A", 0, 0, 0), N("B", 6, 0, 0), N("C", 6, 8, 0), N("D", 0, 8, 0) >>,
     edges |-> << E("E1", "A", "B", 10), E("E2", "B", "A", 10),
                  E("E3", "B", "C", 10), E("E4", "C", "B", 10),
                  E("E5", "C", "D", 10), E("E6", "D", "C", 10),
                  E("E7", "D", "A", 10), E("E8", "A", "D", 10) >>,
     closures |-> << >>]

\* corridors whose weight is below the straight-line distance of their ends
ShortcutTopology ==
    [nodes |-> << N("A", 0, 0, 0), N("B", 3, 0, 0), N("C", 3, 4, 0), N("D", 0, 4, 0) >>,
     edges |-> << E("E1", "A", "D", 2), E("E2", "D", "A", 2),
                  E("E3", "D", "C", 4), E("E4", "C", "D", 4),
                  E("E5", "A", "B", 3), E("E6", "B", "A", 3),
                  E("E7", "B", "C", 1), E("E8", "C", "B", 1) >>,
     closures |-> << [edge_id |-> "E7"] >>]

\* one-way corridor A -> B -> C and stairs C <-> D between level 0 and 1;
\* A and D are gates
StairsTopology ==
    [nodes |-> << Gate("A", 0, 0, 0), N("B", 3, 0, 0), N("C", 3, 4, 0), Gate("D", 3, 4, 1) >>,
     edges |-> << E("E1", "A", "B", 10), E("E2", "B", "C", 10),
                  E("E3", "C", "D", 5), E("E4", "D", "C", 5),
                  E("E5", "A", "C", 25) >>,
     closures |-> << >>]

Topologies == {SquareTopology, ShortcutTopology, StairsTopology}

\* an answer to GET /api/map whose corridors after the first carry no "id":
\* the square with corridors of 20 m, and two closures by edge id
UnlabelledPayload ==
    [nodes |-> SquareTopology.nodes,
     edges |-> << E("E1", "A", "B", 20) >> \o
               [i \in 1..7 |-> [from |-> SquareTopology.edges[i + 1].from,
                                to |-> SquareTopology.edges[i + 1].to,
                                w |-> 20 * ONE]],
     closures |-> << [edge_id |-> "E1"], [edge_id |-> "E2"] >>]

\* the shortcut topology after PUT /api/edges/E7 and /api/edges/E8 of the Map
\* Service set the weight of B -> C and C -> B to -1 (EdgeUpdate takes any
\* float, and Graph() any weight)
NegativeTopology ==
    [nodes |-> ShortcutTopology.nodes,
     edges |-> [i \in 1..8 |-> IF i >= 7
                                THEN [ShortcutTopology.edges[i] EXCEPT !.w = -ONE]
                                ELSE ShortcutTopology.edges[i]],
     closures |-> << >>]

\* the answers of GET /api/map
Payloads == Topologies \cup {UnlabelledPayload}

----------------------------------------------------------------------------
(* astar.py: Graph *)

\* the keys of the dict Graph.nodes in insertion order
RECURSIVE KeyOrder(_)
KeyOrder(nodes) ==
    IF nodes = << >> THEN << >>
    ELSE LET before == KeyOrder(SubSeq(nodes, 1, Len(nodes) - 1))
             id == nodes[Len(nodes)].id
         IN  IF \E i \in DOMAIN before : before[i] = id THEN before
             ELSE Append(before, id)

\* Graph.__init__
Graph(nodes, edges) ==
    [order |-> KeyOrder(nodes),
     nodes |-> [id \in {nodes[i].id : i \in DOMAIN nodes} |->
                   LET i == CHOOSE j \in DOMAIN nodes :
                                /\ nodes[j].id = id
                                /\ \A k \in DOMAIN nodes : nodes[k].id = id => k <= j
                   IN  nodes[i]],
     adjacency |-> [from_id \in {edges[i].from : i \in DOMAIN edges} |->
                   LET out == SelectSeq(edges, LAMBDA e : e.from = from_id)
                   IN  [i \in DOMAIN out |-> <<out[i].to, out[i].w>>]]]

\* Graph.get_neighbors
get_neighbors(graph, node_id) ==
    IF node_id \in DOMAIN graph.adjacency THEN graph.adjacency[node_id] ELSE << >>

Abs(i) == IF i < 0 THEN -i ELSE i

\* math.sqrt on the perfect squares the topologies produce
Sqrt(n) == CHOOSE r \in 0..n : r * r <= n /\ (r + 1) * (r + 1) > n

\* Graph.heuristic
heuristic(graph, node1_id, node2_id) ==
    IF node1_id \notin DOMAIN graph.nodes \/ node2_id \notin DOMAIN graph.nodes
    THEN 0
    ELSE LET n1 == graph.nodes[node1_id]
             n2 == graph.nodes[node2_id]
             dx == n1.x - n2.x
             dy == n1.y - n2.y
             horizontal == Sqrt(dx * dx + dy * dy)
             level_diff == Abs(n1.level - n2.level)
             vertical == level_diff * 5
         IN  (horizontal + vertical) * ONE

----------------------------------------------------------------------------
(* astar.py: HazardMap *)

\* HazardMap.__init__
NewHazardMap == [closures |-> {}, node_hazards |-> EmptyMap, edge_hazards |-> EmptyMap]

\* add_closure closing one direction only
add_closure_one_way(hm, from_node, to_node) ==
    [hm EXCEPT !.closures = @ \cup {<<from_node, to_node>>}]

\* HazardMap.add_closure
add_closure(hm, from_node, to_node) ==
    [hm EXCEPT !.closures = @ \cup {<<from_node, to_node>>, <<to_node, from_node>>}]

\* remove_closure reopening the corridor in the direction given only
remove_closure_one_way(hm, from_node, to_node) ==
    [hm EXCEPT !.closures = @ \ {<<from_node, to_node>>}]

\* HazardMap.remove_closure
remove_closure(hm, from_node, to_node) ==
    [hm EXCEPT !.closures = @ \ {<<from_node, to_node>>, <<to_node, from_node>>}]

\* HazardMap.is_closed
is_closed(hm, from_node, to_node) == <<from_node, to_node>> \in hm.closures

\* dict[key][hazard_type] = severity, creating dict[key] when missing
PutHazard(hazards, key, hazard_type, severity) ==
    LET old == IF key \in DOMAIN hazards THEN hazards[key] ELSE EmptyMap
        new == [t \in DOMAIN old \cup {hazard_type} |->
                   IF t = hazard_type THEN severity ELSE old[t]]
    IN  [k \in DOMAIN hazards \cup {key} |-> IF k = key THEN new ELSE hazards[k]]

\* HazardMap.set_node_hazard
set_node_hazard(hm, node_id, hazard_type, severity) ==
    [hm EXCEPT !.node_hazards = PutHazard(@, node_id, hazard_type, severity)]

\* HazardMap.set_edge_hazard
set_edge_hazard(hm, from_node, to_node, hazard_type, severity) ==
    [hm EXCEPT !.edge_hazards =
        PutHazard(PutHazard(@, <<from_node, to_node>>, hazard_type, severity),
                  <<to_node, from_node>>, hazard_type, severity)]

Min(a, b) == IF a < b THEN a ELSE b

Max(a, b) == IF a > b THEN a ELSE b

\* set_crowd_penalty storing the ramp's value without min(1.0, severity)
set_crowd_penalty_uncapped(hm, node_id, occupancy_rate) ==
    LET severity == IF occupancy_rate < 50 THEN 0
                    ELSE IF occupancy_rate < 80
                         THEN ((occupancy_rate - 50) * ONE) \div 60
                         ELSE ONE \div 2 + ((occupancy_rate - 80) * ONE) \div 40
    IN  set_node_hazard(hm, node_id, "crowd", severity)

\* HazardMap.set_crowd_penalty; occupancy_rate in whole percent
set_crowd_penalty(hm, node_id, occupancy_rate) ==
    LET severity == IF occupancy_rate < 50 THEN 0
                    ELSE IF occupancy_rate < 80
                         THEN ((occupancy_rate - 50) * ONE) \div 60
                         ELSE ONE \div 2 + ((occupancy_rate - 80) * ONE) \div 40
    IN  set_node_hazard(hm, node_id, "crowd", Min(ONE, severity))

RECURSIVE SumPenalty(_, _)
SumPenalty(sev, types) ==
    IF types = {} THEN 0
    ELSE LET t == CHOOSE x \in types : TRUE
         IN  HazardValue(t) * sev[t] + SumPenalty(sev, types \ {t})

\* HazardMap.get_node_penalty
get_node_penalty(hm, node_id) ==
    IF node_id \notin DOMAIN hm.node_hazards THEN 0
    ELSE SumPenalty(hm.node_hazards[node_id], DOMAIN hm.node_hazards[node_id])

\* HazardMap.get_edge_penalty
get_edge_penalty(hm, from_node, to_node) ==
    IF <<from_node, to_node>> \notin DOMAIN hm.edge_hazards THEN 0
    ELSE SumPenalty(hm.edge_hazards[<<from_node, to_node>>],
                    DOMAIN hm.edge_hazards[<<from_node, to_node>>])

\* HazardMap.clear_node_hazards
clear_node_hazards(hm, node_id) ==
    [hm EXCEPT !.node_hazards = [k \in DOMAIN @ \ {node_id} |-> @[k]]]

\* HazardMap.clear_all_hazards
clear_all_hazards(hm) ==
    [hm EXCEPT !.node_hazards = EmptyMap, !.edge_hazards = EmptyMap]

----------------------------------------------------------------------------
(* astar.py: hazard_aware_astar *)

\* (None, float('inf'))
NoPath == [found |-> FALSE, path |-> << >>, cost |-> Inf]

RECURSIVE Reverse(_)
Reverse(s) == IF s = << >> THEN << >> ELSE Append(Reverse(Tail(s)), Head(s))

\* the while loop of _reconstruct_path: path, still to be reversed
RECURSIVE WalkBack(_, _, _)
WalkBack(came_from, current, path) ==
    IF current \in DOMAIN came_from
    THEN WalkBack(came_from, came_from[current], Append(path, came_from[current]))
    ELSE path

\* _reconstruct_path without path.reverse()
reconstruct_path_unreversed(came_from, current) == WalkBack(came_from, current, <<current>>)

\* _reconstruct_path
reconstruct_path(came_from, current) == Reverse(WalkBack(came_from, current, <<current>>))

\* edge_cost without the fire override: node penalties only under avoid_crowds
edge_cost_crowds_only(hm, current, neighbor, base_weight, avoid_crowds) ==
    LET with_edge == base_weight + get_edge_penalty(hm, current, neighbor)
    IN  IF avoid_crowds
        THEN with_edge + get_node_penalty(hm, neighbor)
        ELSE with_edge

\* the cost of the step current -> neighbor (lines 266-274)
edge_cost(hm, current, neighbor, base_weight, avoid_crowds) ==
    LET with_edge == base_weight + get_edge_penalty(hm, current, neighbor)
        on_fire == /\ neighbor \in DOMAIN hm.node_hazards
                   /\ "fire" \in DOMAIN hm.node_hazards[neighbor]
    IN  IF avoid_crowds \/ on_fire
        THEN with_edge + get_node_penalty(hm, neighbor)
        ELSE with_edge

\* one pass of "for neighbor, base_weight in graph.get_neighbors(current)"
RECURSIVE explore(_, _, _, _, _, _, _)
explore(graph, goal, hm, avoid_crowds, current, nbrs, st) ==
    IF nbrs = << >> THEN st
    ELSE LET neighbor == Head(nbrs)[1]
             base_weight == Head(nbrs)[2]
             tentative_g == st.g_score[current]
                            + edge_cost(hm, current, neighbor, base_weight, avoid_crowds)
             next == IF is_closed(hm, current, neighbor)
                     THEN st
                     ELSE IF neighbor \notin DOMAIN st.g_score
                             \/ tentative_g < st.g_score[neighbor]
                          THEN [open_set |-> st.open_set \cup {neighbor},
                                came_from |-> (neighbor :> current) @@ st.came_from,
                                g_score |-> (neighbor :> tentative_g) @@ st.g_score,
                                f_score |-> (neighbor :> tentative_g
                                               + heuristic(graph, neighbor, goal))
                                            @@ st.f_score]
                          ELSE st
         IN  explore(graph, goal, hm, avoid_crowds, current, Tail(nbrs), next)

\* min(open_set, key=f_score): Python sets iterate in hash order, which differs
\* from run to run, so any open node of least f_score may be the one picked
LeastF(st) ==
    {n \in st.open_set : \A m \in st.open_set : st.f_score[n] <= st.f_score[m]}

\* the while loop of hazard_aware_astar: every result it can return
RECURSIVE search(_, _, _, _, _)
search(graph, goal, hm, avoid_crowds, st) ==
    IF st.open_set = {} THEN {NoPath}
    ELSE UNION {
           IF current = goal
           THEN {[found |-> TRUE,
                  path |-> reconstruct_path(st.came_from, current),
                  cost |-> st.g_score[goal]]}
           ELSE search(graph, goal, hm, avoid_crowds,
                       explore(graph, goal, hm, avoid_crowds, current,
                               get_neighbors(graph, current),
                               [st EXCEPT !.open_set = @ \ {current}]))
           : current \in LeastF(st)}

\* hazard_aware_astar: the set of (path, cost) results a call can return
hazard_aware_astar(graph, start, goal, hazard_map, avoid_crowds) ==
    IF start \notin DOMAIN graph.nodes \/ goal \notin DOMAIN graph.nodes
    THEN {NoPath}
    ELSE search(graph, goal, hazard_map, avoid_crowds,
                [open_set |-> {start},
                 came_from |-> [k \in {} |-> ""],
                 g_score |-> (start :> 0),
                 f_score |-> (start :> heuristic(graph, start, goal))])

----------------------------------------------------------------------------
(* astar.py: multi_destination_route *)

\* the "for dest in remaining" pass: the legs it can end with as best_dest,
\* best_path, best_dist.  One search runs per destination; the set is iterated
\* in hash order and a leg replaces the best only when strictly shorter, so a
\* leg can be kept when every other destination's search can come out
\* unreachable or no shorter.
BestLegs(graph, current, remaining, hm) ==
    LET runs(dest) == hazard_aware_astar(graph, current, dest, hm, FALSE)
    IN  UNION {{[dest |-> dest, path |-> r.path, dist |-> r.cost] :
                   r \in {x \in runs(dest) :
                            /\ x.found /\ x.cost < Inf
                            /\ \A other \in remaining \ {dest} :
                                 \E y \in runs(other) : ~y.found \/ y.cost >= x.cost}}
               : dest \in remaining}

\* a result of the rest of the tour, with the destination the loop made
\* current before it put in front of visits, the destinations in the order
\* the loop removed them from remaining
Visited(dest, r) == IF r.found THEN [r EXCEPT !.visits = <<dest>> \o @] ELSE r

\* the tour loop stopping at the first unreachable leg and keeping the path
\* built so far
RECURSIVE tour_partial(_, _, _, _, _, _)
tour_partial(graph, hm, current, remaining, full_path, total_distance) ==
    IF remaining = {}
    THEN {[found |-> TRUE, path |-> full_path, cost |-> total_distance, visits |-> << >>]}
    ELSE LET legs == BestLegs(graph, current, remaining, hm)
         IN  IF legs = {}
             THEN {[found |-> TRUE, path |-> full_path, cost |-> total_distance,
                    visits |-> << >>]}
             ELSE UNION {{Visited(leg.dest, r) :
                            r \in tour_partial(graph, hm, leg.dest, remaining \ {leg.dest},
                                               full_path \o Tail(leg.path),
                                               total_distance + leg.dist)}
                         : leg \in legs}

\* the while loop of multi_destination_route
RECURSIVE tour(_, _, _, _, _, _)
tour(graph, hm, current, remaining, full_path, total_distance) ==
    IF remaining = {}
    THEN {[found |-> TRUE, path |-> full_path, cost |-> total_distance, visits |-> << >>]}
    ELSE LET legs == BestLegs(graph, current, remaining, hm)
         IN  IF legs = {} THEN {NoPath}
             ELSE UNION {{Visited(leg.dest, r) :
                            r \in tour(graph, hm, leg.dest, remaining \ {leg.dest},
                                       full_path \o Tail(leg.path),
                                       total_distance + leg.dist)}
                         : leg \in legs}

\* multi_destination_route: the set of (full_path, total_distance) results
multi_destination_route(graph, start, destinations, hazard_map) ==
    IF destinations = << >>
    THEN {[found |-> TRUE, path |-> <<start>>, cost |-> 0, visits |-> << >>]}
    ELSE tour(graph, hazard_map, start,
              {destinations[i] : i \in DOMAIN destinations}, <<start>>, 0)

----------------------------------------------------------------------------
(* astar.py: calculate_eta; nearest_responder.py: StaffTracker, dispatch *)

StaffRoles == {"security", "cleaning", "supervisor", "medical"}

StaffStatuses == {"available", "busy", "off_duty", "responding"}

Priorities == {"low", "medium", "high", "critical"}

StaffMember(id, role, current_position, status) ==
    [id |-> id, role |-> role, current_position |-> current_position, status |-> status]

\* StaffMember.is_available
is_available(staff) == staff.status = "available"

\* StaffTracker.__init__: the dict staff, in insertion order
NewStaffTracker == [staff |-> << >>]

\* StaffTracker.add_staff: self.staff[staff.id] = staff
add_staff(tracker, staff) ==
    IF \E i \in DOMAIN tracker.staff : tracker.staff[i].id = staff.id
    THEN [staff |-> [i \in DOMAIN tracker.staff |->
                        IF tracker.staff[i].id = staff.id THEN staff ELSE tracker.staff[i]]]
    ELSE [staff |-> Append(tracker.staff, staff)]

\* StaffTracker.update_position
update_position(tracker, staff_id, new_position) ==
    [staff |-> [i \in DOMAIN tracker.staff |->
                   IF tracker.staff[i].id = staff_id
                   THEN [tracker.staff[i] EXCEPT !.current_position = new_position]
                   ELSE tracker.staff[i]]]

\* update_status that changes nothing
update_status_lost(tracker, staff_id, new_status) == tracker

\* StaffTracker.update_status
update_status(tracker, staff_id, new_status) ==
    [staff |-> [i \in DOMAIN tracker.staff |->
                   IF tracker.staff[i].id = staff_id
                   THEN [tracker.staff[i] EXCEPT !.status = new_status]
                   ELSE tracker.staff[i]]]

\* get_available_by_role without the role test
get_available_any_role(tracker, role) ==
    SelectSeq(tracker.staff, LAMBDA staff : is_available(staff))

\* StaffTracker.get_available_by_role
get_available_by_role(tracker, role) ==
    SelectSeq(tracker.staff, LAMBDA staff : staff.role = role /\ is_available(staff))

\* calculate_eta: int(distance / speed), speed in tenths of a metre per second
calculate_eta(distance, speed) == (distance * 10) \div (ONE * speed)

\* calculate_eta_with_role
calculate_eta_with_role(distance, role) ==
    LET speed == CASE role = "security" -> 20
                   [] role = "cleaning" -> 12
                   [] role = "supervisor" -> 15
                   [] role = "medical" -> 18
                   [] OTHER -> 15
    IN  calculate_eta(distance, speed)

\* str.lower on the strings the callers pass
lower(s) ==
    CASE s = "SECURITY" -> "security"
      [] s = "SMOKE" -> "smoke"
      [] s = "CRITICAL" -> "critical"
      [] OTHER -> s

EmergencyIncident(location, priority, required_role) ==
    [location |-> location, priority |-> priority, required_role |-> required_role]

ResponderAssignment(staff, incident, path, distance, eta_seconds) ==
    [staff_id |-> staff.id, staff_role |-> staff.role,
     current_position |-> staff.current_position,
     incident_location |-> incident.location,
     path |-> path, distance |-> distance, eta_seconds |-> eta_seconds,
     priority |-> incident.priority]

\* priority weights with the weight of critical truncated to 0
priority_weight_truncated(priority) ==
    CASE priority = "critical" -> 0
      [] priority = "high" -> 3
      [] priority = "medium" -> 4
      [] priority = "low" -> 6
      [] OTHER -> 4

\* priority_weights.get(priority, 1.0), in quarters: 0.5, 0.75, 1.0, 1.5
priority_weight(priority) ==
    CASE priority = "critical" -> 2
      [] priority = "high" -> 3
      [] priority = "medium" -> 4
      [] priority = "low" -> 6
      [] OTHER -> 4

\* the loop "for staff in available_staff" of find_nearest_responder: every
\* best_assignment it can end with (one search result is drawn per candidate)
RECURSIVE evaluate(_, _, _, _, _, _)
evaluate(graph, incident, hm, candidates, best_assignment, best_weighted_eta) ==
    IF candidates = << >> THEN {best_assignment}
    ELSE LET staff == Head(candidates)
         IN  UNION {
               IF ~r.found
               THEN evaluate(graph, incident, hm, Tail(candidates),
                             best_assignment, best_weighted_eta)
               ELSE LET eta_seconds == calculate_eta_with_role(r.cost, staff.role)
                        weighted_eta == eta_seconds * priority_weight(lower(incident.priority))
                    IN  IF weighted_eta < best_weighted_eta
                        THEN evaluate(graph, incident, hm, Tail(candidates),
                                      ResponderAssignment(staff, incident, r.path,
                                                          r.cost, eta_seconds),
                                      weighted_eta)
                        ELSE evaluate(graph, incident, hm, Tail(candidates),
                                      best_assignment, best_weighted_eta)
               : r \in hazard_aware_astar(graph, staff.current_position,
                                          incident.location, hm, TRUE)}

\* find_nearest_responder: the assignments (or None) a call can return
find_nearest_responder(graph, incident, staff_tracker, hazard_map) ==
    LET available_staff == get_available_by_role(staff_tracker, incident.required_role)
    IN  IF available_staff = << >> THEN {None}
        ELSE evaluate(graph, incident, hazard_map, available_staff, None, Inf)

\* the loop of find_multiple_responders: every list of assignments it can build
RECURSIVE collect(_, _, _, _, _)
collect(graph, incident, hm, candidates, assignments) ==
    IF candidates = << >> THEN {assignments}
    ELSE LET staff == Head(candidates)
         IN  UNION {
               IF ~r.found
               THEN collect(graph, incident, hm, Tail(candidates), assignments)
               ELSE collect(graph, incident, hm, Tail(candidates),
                            Append(assignments,
                                   ResponderAssignment(staff, incident, r.path, r.cost,
                                       calculate_eta_with_role(r.cost, staff.role))))
               : r \in hazard_aware_astar(graph, staff.current_position,
                                          incident.location, hm, TRUE)}

\* list.sort(key=eta_seconds): stable insertion of a into the sorted list
RECURSIVE InsertByEta(_, _)
InsertByEta(sorted, a) ==
    IF sorted = << >> THEN <<a>>
    ELSE IF a.eta_seconds < Head(sorted).eta_seconds
         THEN <<a>> \o sorted
         ELSE <<Head(sorted)>> \o InsertByEta(Tail(sorted), a)

RECURSIVE SortByEta(_)
SortByEta(assignments) ==
    IF assignments = << >> THEN << >>
    ELSE InsertByEta(SortByEta(SubSeq(assignments, 1, Len(assignments) - 1)),
                     assignments[Len(assignments)])

\* find_multiple_responders without the sort by eta_seconds
find_multiple_unsorted(graph, incident, staff_tracker, hazard_map, num_responders) ==
    LET available_staff == get_available_by_role(staff_tracker, incident.required_role)
    IN  IF available_staff = << >> THEN {<< >>}
        ELSE {SubSeq(a, 1, IF num_responders >= 0
                           THEN Min(Len(a), num_responders)
                           ELSE Max(Len(a) + num_responders, 0)) :
                 a \in collect(graph, incident, hazard_map, available_staff, << >>)}

\* find_multiple_responders: the lists a call can return
find_multiple_responders(graph, incident, staff_tracker, hazard_map, num_responders) ==
    LET available_staff == get_available_by_role(staff_tracker, incident.required_role)
    IN  IF available_staff = << >> THEN {<< >>}
        ELSE {SubSeq(SortByEta(a), 1, IF num_responders >= 0
                                      THEN Min(Len(a), num_responders)
                                      ELSE Max(Len(a) + num_responders, 0)) :
                 a \in collect(graph, incident, hazard_map, available_staff, << >>)}

\* assign_responder_to_incident marking every member of the incident's role
assign_responder_to_incident_by_role(graph, incident, staff_tracker, hazard_map) ==
    {[assignment |-> a,
      tracker |-> IF a # None
                  THEN [staff |-> [i \in DOMAIN staff_tracker.staff |->
                          IF staff_tracker.staff[i].role = a.staff_role
                          THEN [staff_tracker.staff[i] EXCEPT !.status = "responding"]
                          ELSE staff_tracker.staff[i]]]
                  ELSE staff_tracker]
       : a \in find_nearest_responder(graph, incident, staff_tracker, hazard_map)}

\* assign_responder_to_incident: (assignment, tracker afterwards) pairs
assign_responder_to_incident(graph, incident, staff_tracker, hazard_map) ==
    {[assignment |-> a,
      tracker |-> IF a # None
                  THEN update_status(staff_tracker, a.staff_id, "responding")
                  ELSE staff_tracker]
       : a \in find_nearest_responder(graph, incident, staff_tracker, hazard_map)}

----------------------------------------------------------------------------
(* The routing library driven directly: a caller owns one Graph and one    *)
(* HazardMap, calls the HazardMap operations and the route functions one   *)
(* at a time and takes each result before the next call.                   *)

Idle == [op |-> "idle"]

\* inputs of the calls
ClosureInputs == {<<"B", "C">>, <<"C", "B">>, <<"A", "D">>, <<"D", "C">>}

HazardNodeInputs == {"B", "D"}

HazardTypeInputs == {"smoke", "fire"}

HazardEdgeInputs == {<<"A", "D">>}

SeverityInputs == {0, ONE \div 2, ONE}

OccupancyInputs == {50, 80, 100}

DestinationInputs == {<< >>, <<"C">>, <<"B", "D">>, <<"C", "A">>, <<"B", "C">>,
                      <<"D", "C", "D">>, <<"B", UnknownNode>>}

\* number of closed corridors
ClosureCount(hm) == Cardinality({{c[1], c[2]} : c \in hm.closures})

\* number of (node, type) and (corridor, type) hazard entries
HazardCount(hm) ==
    LET nodeEntries == {<<n, t>> \in (DOMAIN hm.node_hazards) \X HazardTypes :
                           t \in DOMAIN hm.node_hazards[n]}
        edgeEntries == {<<{e[1][1], e[1][2]}, e[2]>> : e \in
                           {<<k, t>> \in (DOMAIN hm.edge_hazards) \X HazardTypes :
                               t \in DOMAIN hm.edge_hazards[k]}}
    IN  Cardinality(nodeEntries) + Cardinality(edgeEntries)

WithinBounds(hm) == ClosureCount(hm) <= MaxClosures /\ HazardCount(hm) <= MaxHazards

\* a HazardMap operation was called and returned
Mutate(hm) ==
    /\ call = Idle
    /\ WithinBounds(hm)
    /\ HAZARD_MAP' = hm
    /\ UNCHANGED <<GRAPH, STAFF_TRACKER, serviceVars, call>>

AddClosure == \E c \in ClosureInputs : Mutate(add_closure(HAZARD_MAP, c[1], c[2]))

RemoveClosure == \E c \in ClosureInputs : Mutate(remove_closure(HAZARD_MAP, c[1], c[2]))

SetNodeHazard ==
    \E n \in HazardNodeInputs, t \in HazardTypeInputs, s \in SeverityInputs :
        Mutate(set_node_hazard(HAZARD_MAP, n, t, s))

SetEdgeHazard ==
    \E e \in HazardEdgeInputs, s \in SeverityInputs :
        Mutate(set_edge_hazard(HAZARD_MAP, e[1], e[2], "smoke", s))

SetCrowdPenalty ==
    \E n \in {"D"}, o \in OccupancyInputs : Mutate(set_crowd_penalty(HAZARD_MAP, n, o))

ClearNodeHazards == \E n \in HazardNodeInputs : Mutate(clear_node_hazards(HAZARD_MAP, n))

ClearAllHazards == Mutate(clear_all_hazards(HAZARD_MAP))

\* hazard_aware_astar(graph, start, goal, hazard_map, avoid_crowds) is called
Route ==
    /\ call = Idle
    /\ \E start \in NodeIds \cup {UnknownNode}, goal \in NodeIds, avoid_crowds \in BOOLEAN :
         \E r \in hazard_aware_astar(GRAPH, start, goal, HAZARD_MAP, avoid_crowds) :
           call' = [op |-> "route", start |-> start, goal |-> goal,
                    avoid_crowds |-> avoid_crowds, result |-> r]
    /\ UNCHANGED <<GRAPH, HAZARD_MAP, STAFF_TRACKER, serviceVars>>

\* multi_destination_route(graph, start, destinations, hazard_map) is called
MultiRoute ==
    /\ call = Idle
    /\ \E start \in {"A", "C"}, destinations \in DestinationInputs :
         \E r \in multi_destination_route(GRAPH, start, destinations, HAZARD_MAP) :
           call' = [op |-> "multi", start |-> start, destinations |-> destinations,
                    result |-> r]
    /\ UNCHANGED <<GRAPH, HAZARD_MAP, STAFF_TRACKER, serviceVars>>

\* the caller takes the result
Return ==
    /\ call # Idle
    /\ call' = Idle
    /\ UNCHANGED <<GRAPH, HAZARD_MAP, STAFF_TRACKER, serviceVars>>

ServiceOff ==
    /\ route_handler = None /\ emergency_handler = None /\ hazard_handler = None
    /\ started = FALSE /\ mapUp = FALSE /\ requests = EmptyBag /\ response = None
    /\ assignLog = EmptyMap

RouteInit ==
    /\ GRAPH \in {Graph(t.nodes, t.edges) : t \in Topologies}
    /\ HAZARD_MAP = NewHazardMap
    /\ STAFF_TRACKER = None
    /\ ServiceOff
    /\ call = Idle

RouteNext ==
    \/ AddClosure
    \/ RemoveClosure
    \/ SetNodeHazard
    \/ SetEdgeHazard
    \/ SetCrowdPenalty
    \/ ClearNodeHazards
    \/ ClearAllHazards
    \/ Route
    \/ MultiRoute
    \/ Return

RouteSpec == RouteInit /\ [][RouteNext]_vars

----------------------------------------------------------------------------
(* The dispatch library driven directly: a caller owns a Graph, a          *)
(* HazardMap and a StaffTracker, registers and updates staff, reports      *)
(* hazards and asks for responders, one call at a time.  Staff ids are     *)
(* handed out in the order of StaffIdPool (any other order is a renaming). *)
(* Path costs here are multiples of 0.5, on which int(distance / speed) in *)
(* floats equals the exact quotient rounded down.                          *)

StaffIdPool == <<"S1", "S2", "S3", "S4">>

UnknownStaff == "S0"   \* an id no tracker holds

RoleInputs == {"security", "medical"}

PositionInputs == {"B", "D"}

StatusInputs == {"available", "busy", "responding"}

LocationInputs == {"A", "B"}

StaffIdsOf(tracker) == {tracker.staff[i].id : i \in DOMAIN tracker.staff}

\* a StaffTracker operation was called and returned
Track(tracker) ==
    /\ call = Idle
    /\ STAFF_TRACKER' = tracker
    /\ UNCHANGED <<GRAPH, HAZARD_MAP, serviceVars, call>>

\* staff_tracker.add_staff(StaffMember(...)): a new id or one already held
AddStaff ==
    \E id \in StaffIdsOf(STAFF_TRACKER)
              \cup {StaffIdPool[i] : i \in {Len(STAFF_TRACKER.staff) + 1} \cap 1..MaxStaff},
       role \in RoleInputs, position \in PositionInputs, status \in StatusInputs :
        Track(add_staff(STAFF_TRACKER, StaffMember(id, role, position, status)))

UpdateStatus ==
    \E id \in StaffIdsOf(STAFF_TRACKER) \cup {UnknownStaff}, status \in StatusInputs :
        Track(update_status(STAFF_TRACKER, id, status))

UpdatePosition ==
    \E id \in StaffIdsOf(STAFF_TRACKER) \cup {UnknownStaff}, position \in PositionInputs :
        Track(update_position(STAFF_TRACKER, id, position))

\* hazard_map.add_closure("A", "B")
CloseCorridor == Mutate(add_closure(HAZARD_MAP, "A", "B"))

\* hazard_map.set_crowd_penalty("D", 100)
CrowdSurge == Mutate(set_crowd_penalty(HAZARD_MAP, "D", 100))

\* find_nearest_responder(graph, incident, staff_tracker, hazard_map) is called
FindNearest ==
    /\ call = Idle
    /\ \E location \in LocationInputs, role \in RoleInputs,
          priority \in {"critical", "CRITICAL", "low"} :
         LET incident == EmergencyIncident(location, priority, role)
         IN  \E r \in find_nearest_responder(GRAPH, incident, STAFF_TRACKER, HAZARD_MAP) :
               call' = [op |-> "find_nearest", incident |-> incident, result |-> r]
    /\ UNCHANGED <<GRAPH, HAZARD_MAP, STAFF_TRACKER, serviceVars>>

\* find_multiple_responders(graph, incident, staff_tracker, hazard_map, k) is called
FindMultiple ==
    /\ call = Idle
    /\ \E location \in LocationInputs, role \in RoleInputs, k \in 1..2 :
         LET incident == EmergencyIncident(location, "medium", role)
         IN  \E r \in find_multiple_responders(GRAPH, incident, STAFF_TRACKER,
                                               HAZARD_MAP, k) :
               call' = [op |-> "find_multiple", incident |-> incident,
                        num_responders |-> k, result |-> r]
    /\ UNCHANGED <<GRAPH, HAZARD_MAP, STAFF_TRACKER, serviceVars>>

\* assign_responder_to_incident(graph, incident, staff_tracker, hazard_map) is called
Assign ==
    /\ call = Idle
    /\ \E location \in LocationInputs, role \in RoleInputs :
         LET incident == EmergencyIncident(location, "high", role)
         IN  \E r \in assign_responder_to_incident(GRAPH, incident, STAFF_TRACKER,
                                                   HAZARD_MAP) :
               /\ call' = [op |-> "assign", incident |-> incident,
                           before |-> STAFF_TRACKER, result |-> r.assignment]
               /\ STAFF_TRACKER' = r.tracker
    /\ UNCHANGED <<GRAPH, HAZARD_MAP, serviceVars>>

DispatchInit ==
    /\ GRAPH \in {Graph(t.nodes, t.edges) : t \in Topologies}
    /\ HAZARD_MAP = NewHazardMap
    /\ STAFF_TRACKER = NewStaffTracker
    /\ ServiceOff
    /\ call = Idle

DispatchNext ==
    \/ AddStaff
    \/ UpdateStatus
    \/ UpdatePosition
    \/ CloseCorridor
    \/ CrowdSurge
    \/ ClearAllHazards
    \/ FindNearest
    \/ FindMultiple
    \/ Assign
    \/ Return

DispatchSpec == DispatchInit /\ [][DispatchNext]_vars

\* the caller never stops calling
FairDispatchSpec == DispatchSpec /\ WF_vars(DispatchNext)

----------------------------------------------------------------------------
(* nearest_responder.py: create_mock_staff_tracker; api_handlers.py *)

num_per_role == 3      \* startup and reload_graph pass num_per_role=3

RoleOrder == <<"security", "cleaning", "supervisor", "medical">>

\* role.value.upper()
upper(role) ==
    CASE role = "security" -> "SECURITY"
      [] role = "cleaning" -> "CLEANING"
      [] role = "supervisor" -> "SUPERVISOR"
      [] role = "medical" -> "MEDICAL"

\* f"STAFF_{role.value.upper()}_{staff_id:03d}"
StaffIdOf(role, staff_id) ==
    "STAFF_" \o upper(role) \o "_"
        \o (IF staff_id < 10 THEN "00" ELSE IF staff_id < 100 THEN "0" ELSE "")
        \o ToString(staff_id)

\* seq[::step][:limit]
Stride(seq, step, limit) ==
    [i \in 1..Min(limit, (Len(seq) + step - 1) \div step) |-> seq[(i - 1) * step + 1]]

\* create_mock_staff_tracker(graph, num_per_role)
create_mock_staff_tracker(graph, count) ==
    LET gates == SelectSeq(graph.order,
                           LAMBDA id : graph.nodes[id].type \in {"gate", "entrance"})
        all_nodes == graph.order
        entrance_nodes == IF gates # << >> THEN gates
                          ELSE Stride(all_nodes, Max(1, Len(all_nodes) \div 6), 6)
        member(staff_id) ==
            LET role == RoleOrder[((staff_id - 1) \div count) + 1]
                position == entrance_nodes[((staff_id - 1) % Len(entrance_nodes)) + 1]
            IN  StaffMember(StaffIdOf(role, staff_id), role, position, "available")
    IN  [staff |-> [staff_id \in 1..(Len(RoleOrder) * count) |-> member(staff_id)]]

\* RouteAPIHandler.__init__: keeps the Graph it was built with and a reference
\* to the one HazardMap object
RouteAPIHandler(graph, hazard_map) == [graph |-> graph]

\* EmergencyAPIHandler.__init__: keeps the Graph it was built with and
\* references to the HazardMap and StaffTracker objects
EmergencyAPIHandler(graph, hazard_map, staff_tracker) == [graph |-> graph]

HazardAPIHandler(hazard_map) == [tag |-> "HazardAPIHandler"]

RouteRequest(from_node, to_node, avoid_crowds) ==
    [kind |-> "route", from_node |-> from_node, to_node |-> to_node,
     avoid_crowds |-> avoid_crowds]

EmergencyRequest(kind, location, priority, required_role) ==
    [kind |-> kind, location |-> location, priority |-> priority,
     required_role |-> required_role]

\* RouteAPIHandler.get_route: the (status, distance) it can answer
get_route(handler, hazard_map, request) ==
    IF request.from_node \notin DOMAIN handler.graph.nodes
    THEN {[status |-> 404, distance |-> 0]}
    ELSE IF request.to_node \notin DOMAIN handler.graph.nodes
    THEN {[status |-> 404, distance |-> 0]}
    ELSE {IF ~r.found THEN [status |-> 404, distance |-> 0]
                      ELSE [status |-> 200, distance |-> r.cost]
            : r \in hazard_aware_astar(handler.graph, request.from_node, request.to_node,
                                       hazard_map, request.avoid_crowds)}

\* EmergencyAPIHandler.assign_nearest_responder: the (status, staff_id) it can
\* answer, each with the tracker it leaves
assign_nearest_responder(handler, hazard_map, staff_tracker, request) ==
    IF request.location \notin DOMAIN handler.graph.nodes
    THEN {[status |-> 404, staff_id |-> "", tracker |-> staff_tracker]}
    ELSE IF lower(request.required_role) \notin StaffRoles
    THEN {[status |-> 400, staff_id |-> "", tracker |-> staff_tracker]}
    ELSE LET incident == EmergencyIncident(request.location, request.priority,
                                           lower(request.required_role))
         IN  {IF o.assignment = None
              THEN [status |-> 404, staff_id |-> "", tracker |-> o.tracker]
              ELSE [status |-> 200, staff_id |-> o.assignment.staff_id,
                    tracker |-> o.tracker]
                : o \in assign_responder_to_incident(handler.graph, incident,
                                                     staff_tracker, hazard_map)}

\* EmergencyAPIHandler.assign_multiple_responders: the (status, staff ids in
\* the order of the response list) it can answer; the tracker is only read
assign_multiple_responders(handler, hazard_map, staff_tracker, request, num_responders) ==
    IF request.location \notin DOMAIN handler.graph.nodes
    THEN {[status |-> 404, staff_ids |-> << >>]}
    ELSE IF lower(request.required_role) \notin StaffRoles
    THEN {[status |-> 400, staff_ids |-> << >>]}
    ELSE LET incident == EmergencyIncident(request.location, request.priority,
                                           lower(request.required_role))
         IN  {IF assignments = << >>
              THEN [status |-> 404, staff_ids |-> << >>]
              ELSE [status |-> 200,
                    staff_ids |-> [j \in DOMAIN assignments |-> assignments[j].staff_id]]
                : assignments \in find_multiple_responders(handler.graph, incident,
                                     staff_tracker, hazard_map, num_responders)}

----------------------------------------------------------------------------
(* main.py: the FastAPI application.  Every endpoint is a coroutine on one *)
(* event loop: it runs alone from one await to the next.  The only await   *)
(* of the endpoints below is the fetch in load_graph_from_map_service.     *)

MaxRequests == 2       \* requests suspended at an await at once

\* next((e for e in edges if e['id'] == edge_id), None): the first corridor
\* with that id, None when there is none, KeyError at a corridor without "id"
RECURSIVE FindEdge(_, _)
FindEdge(edges, edge_id) ==
    IF edges = << >> THEN [raised |-> FALSE, edge |-> None]
    ELSE IF "id" \notin DOMAIN Head(edges) THEN [raised |-> TRUE, edge |-> None]
    ELSE IF Head(edges).id = edge_id THEN [raised |-> FALSE, edge |-> Head(edges)]
    ELSE FindEdge(Tail(edges), edge_id)

\* the closure loop of load_graph_from_map_service: the HazardMap it leaves
\* and whether it raised
RECURSIVE LoadClosures(_, _, _)
LoadClosures(hazard_map, closures, edges) ==
    IF closures = << >> THEN [raised |-> FALSE, hazard_map |-> hazard_map]
    ELSE LET closure == Head(closures)
         IN  IF "edge_id" \notin DOMAIN closure
             THEN LoadClosures(hazard_map, Tail(closures), edges)
             ELSE LET look == FindEdge(edges, closure.edge_id)
                  IN  IF look.raised THEN [raised |-> TRUE, hazard_map |-> hazard_map]
                      ELSE IF look.edge = None
                      THEN LoadClosures(hazard_map, Tail(closures), edges)
                      ELSE LoadClosures(add_closure(hazard_map, look.edge.from,
                                                    look.edge.to),
                                        Tail(closures), edges)

\* load_graph_from_map_service: what it returns and leaves in GRAPH and
\* HAZARD_MAP. The fetch raises (nothing was assigned) or is answered with a
\* payload; GRAPH is assigned before the closure loop runs, inside the same
\* try block.
load_graph_from_map_service(graph, hazard_map) ==
    IF mapUp
    THEN {LET loaded == LoadClosures(hazard_map, t.closures, t.edges)
          IN  [success |-> ~loaded.raised, GRAPH |-> Graph(t.nodes, t.edges),
               HAZARD_MAP |-> loaded.hazard_map]
            : t \in Payloads}
    ELSE {[success |-> FALSE, GRAPH |-> graph, HAZARD_MAP |-> hazard_map]}

\* no load was awaited
NoLoad == [success |-> FALSE, GRAPH |-> GRAPH, HAZARD_MAP |-> HAZARD_MAP]

MapServiceUp == mapUp = FALSE /\ mapUp' = TRUE
                /\ UNCHANGED <<GRAPH, HAZARD_MAP, STAFF_TRACKER, route_handler,
                               emergency_handler, hazard_handler, started, requests,
                               response, assignLog, call>>

MapServiceDown == mapUp = TRUE /\ mapUp' = FALSE
                  /\ UNCHANGED <<GRAPH, HAZARD_MAP, STAFF_TRACKER, route_handler,
                                 emergency_handler, hazard_handler, started, requests,
                                 response, assignLog, call>>

\* startup(): runs before any request is served
Startup ==
    /\ ~started
    /\ started' = TRUE
    /\ \E o \in load_graph_from_map_service(GRAPH, NewHazardMap) :
         /\ GRAPH' = o.GRAPH
         /\ HAZARD_MAP' = o.HAZARD_MAP
         /\ IF o.success /\ o.GRAPH # None
            THEN /\ STAFF_TRACKER' = create_mock_staff_tracker(o.GRAPH, num_per_role)
                 /\ route_handler' = RouteAPIHandler(o.GRAPH, o.HAZARD_MAP)
                 /\ emergency_handler' = EmergencyAPIHandler(o.GRAPH, o.HAZARD_MAP,
                                                             STAFF_TRACKER')
                 /\ hazard_handler' = HazardAPIHandler(o.HAZARD_MAP)
            ELSE UNCHANGED <<STAFF_TRACKER, route_handler, emergency_handler,
                             hazard_handler>>
    /\ UNCHANGED <<mapUp, requests, response, assignLog, call>>

\* the response goes out
Respond(request, lazy, o, status, staff_id, distance) ==
    response' = [kind |-> request.kind, lazy |-> lazy, loaded |-> o.success,
                 status |-> status, staff_id |-> staff_id, distance |-> distance]

\* get_route from "if not GRAPH" on; o is the load it awaited, if any
get_route_endpoint(request, lazy, o) ==
    /\ GRAPH' = o.GRAPH
    /\ HAZARD_MAP' = o.HAZARD_MAP
    /\ IF o.GRAPH = None THEN Respond(request, lazy, o, 503, "", 0)
       ELSE IF route_handler = None THEN Respond(request, lazy, o, 500, "", 0)
       ELSE \E r \in get_route(route_handler, o.HAZARD_MAP, request) :
               Respond(request, lazy, o, r.status, "", r.distance)
    /\ UNCHANGED <<STAFF_TRACKER, route_handler, emergency_handler, hazard_handler,
                   started, mapUp, assignLog, call>>

\* one more assignment of staff_id on the current tracker
Logged(log, staff_id) ==
    [id \in DOMAIN log \cup {staff_id} |->
        IF id = staff_id THEN (IF id \in DOMAIN log THEN log[id] + 1 ELSE 1)
        ELSE log[id]]

\* assign_responder and find_nearest_responder_simple from "if not GRAPH" on
assign_endpoint(request, lazy, o) ==
    /\ GRAPH' = o.GRAPH
    /\ HAZARD_MAP' = o.HAZARD_MAP
    /\ IF emergency_handler = None
       THEN /\ Respond(request, lazy, o, 500, "", 0)
            /\ UNCHANGED <<STAFF_TRACKER, assignLog>>
       ELSE \E r \in assign_nearest_responder(emergency_handler, o.HAZARD_MAP,
                                              STAFF_TRACKER, request) :
               /\ Respond(request, lazy, o, r.status, r.staff_id, 0)
               /\ STAFF_TRACKER' = r.tracker
               /\ assignLog' = IF r.status = 200 THEN Logged(assignLog, r.staff_id)
                               ELSE assignLog
    /\ UNCHANGED <<route_handler, emergency_handler, hazard_handler, started, mapUp,
                   call>>

\* reload_graph after its load returned
reload_endpoint(request, o) ==
    /\ GRAPH' = o.GRAPH
    /\ HAZARD_MAP' = o.HAZARD_MAP
    /\ IF ~o.success
       THEN /\ Respond(request, FALSE, o, 503, "", 0)
            /\ UNCHANGED <<STAFF_TRACKER, route_handler, emergency_handler,
                           hazard_handler, assignLog>>
       ELSE /\ STAFF_TRACKER' = create_mock_staff_tracker(o.GRAPH, num_per_role)
            /\ route_handler' = RouteAPIHandler(o.GRAPH, o.HAZARD_MAP)
            /\ emergency_handler' = EmergencyAPIHandler(o.GRAPH, o.HAZARD_MAP,
                                                        STAFF_TRACKER')
            /\ hazard_handler' = HazardAPIHandler(o.HAZARD_MAP)
            /\ assignLog' = EmptyMap
            /\ Respond(request, FALSE, o, 200, "", 0)
    /\ UNCHANGED <<started, mapUp, call>>

\* a request reaches "await load_graph_from_map_service()"
Suspend(request) ==
    /\ BagCardinality(requests) < MaxRequests
    /\ requests' = requests (+) SetToBag({request})
    /\ UNCHANGED <<GRAPH, HAZARD_MAP, STAFF_TRACKER, route_handler, emergency_handler,
                   hazard_handler, started, mapUp, response, assignLog, call>>

RouteInputs == {<<"A", "C">>, <<"C", "A">>, <<UnknownNode, "C">>}

\* GET /api/route
GetRoute ==
    /\ started
    /\ \E e \in RouteInputs :
         LET request == RouteRequest(e[1], e[2], FALSE)
         IN  IF GRAPH = None THEN Suspend(request)
             ELSE get_route_endpoint(request, FALSE, NoLoad) /\ UNCHANGED requests

\* POST /api/emergency/assign
AssignResponder ==
    /\ started
    /\ \E role \in {"SECURITY", "janitor"} :
         LET request == EmergencyRequest("assign", "B", "critical", role)
         IN  IF GRAPH = None THEN Suspend(request)
             ELSE assign_endpoint(request, FALSE, NoLoad) /\ UNCHANGED requests

\* GET /api/emergency/nearest
FindNearestResponderSimple ==
    /\ started
    /\ LET request == EmergencyRequest("nearest", "B", "high", "security")
       IN  IF GRAPH = None THEN Suspend(request)
           ELSE assign_endpoint(request, FALSE, NoLoad) /\ UNCHANGED requests

\* POST /api/reload
ReloadGraph ==
    /\ started
    /\ Suspend([kind |-> "reload"])

\* the closure endpoints: hazard_handler.add_closure / remove_closure is called,
\* which raises AttributeError (500) when hazard_handler is None
closure_endpoint(request, hazard_map) ==
    /\ IF hazard_handler = None
       THEN /\ Respond(request, FALSE, NoLoad, 500, "", 0)
            /\ UNCHANGED HAZARD_MAP
       ELSE /\ Respond(request, FALSE, NoLoad, 200, "", 0)
            /\ HAZARD_MAP' = hazard_map
    /\ UNCHANGED <<GRAPH, STAFF_TRACKER, route_handler, emergency_handler, hazard_handler,
                   started, mapUp, requests, assignLog, call>>

ClosureRequestInputs == {<<"C", "B">>}

\* POST /api/hazards/closure
PostClosure ==
    /\ started
    /\ \E c \in ClosureRequestInputs :
         closure_endpoint([kind |-> "add_closure", from_node |-> c[1], to_node |-> c[2]],
                          add_closure(HAZARD_MAP, c[1], c[2]))

\* DELETE /api/hazards/closure
DeleteClosure ==
    /\ started
    /\ \E c \in ClosureRequestInputs :
         closure_endpoint([kind |-> "remove_closure", from_node |-> c[1], to_node |-> c[2]],
                          remove_closure(HAZARD_MAP, c[1], c[2]))

\* the load a suspended request awaits returns and its endpoint runs on
LoadReturns ==
    \E request \in BagToSet(requests) :
       /\ requests' = requests (-) SetToBag({request})
       /\ \E o \in load_graph_from_map_service(GRAPH, HAZARD_MAP) :
            CASE request.kind = "route" -> get_route_endpoint(request, TRUE, o)
              [] request.kind \in {"assign", "nearest"} -> assign_endpoint(request, TRUE, o)
              [] request.kind = "reload" -> reload_endpoint(request, o)

Init ==
    /\ GRAPH = None
    /\ HAZARD_MAP = None
    /\ STAFF_TRACKER = None
    /\ ServiceOff
    /\ call = Idle

Next ==
    \/ MapServiceUp
    \/ MapServiceDown
    \/ Startup
    \/ GetRoute
    \/ AssignResponder
    \/ FindNearestResponderSimple
    \/ ReloadGraph
    \/ PostClosure
    \/ DeleteClosure
    \/ LoadReturns

Spec == Init /\ [][Next]_vars

----------------------------------------------------------------------------
(* Reference definitions used to state the routing claims *)

\* the nodes a path enters: every node but the first
Entered(path) == {path[i] : i \in 2..Len(path)}

Steps(path) == 1..(Len(path) - 1)

\* least base weight of a corridor a -> b of the graph, Inf when there is none
BaseWeight(graph, a, b) ==
    LET nbrs == get_neighbors(graph, a)
        ws == {nbrs[i][2] : i \in {j \in DOMAIN nbrs : nbrs[j][1] = b}}
    IN  IF ws = {} THEN Inf ELSE CHOOSE w \in ws : \A v \in ws : w <= v

RECURSIVE SumOver(_, _, _)
SumOver(F(_), path, steps) ==
    IF steps = {} THEN 0
    ELSE LET i == CHOOSE j \in steps : TRUE
         IN  F(i) + SumOver(F, path, steps \ {i})

\* base weights plus corridor penalties along a path
CorridorCost(graph, hm, path) ==
    LET F(i) == BaseWeight(graph, path[i], path[i + 1])
                + get_edge_penalty(hm, path[i], path[i + 1])
    IN  SumOver(F, path, Steps(path))

HasFire(hm, n) == n \in DOMAIN hm.node_hazards /\ "fire" \in DOMAIN hm.node_hazards[n]

\* node penalties of the nodes on fire a path enters, one per entry
FireCharges(hm, path) ==
    LET F(i) == IF HasFire(hm, path[i + 1]) THEN get_node_penalty(hm, path[i + 1]) ELSE 0
    IN  SumOver(F, path, Steps(path))

\* Bellman-Ford over base weights: dist after k more rounds of relaxation
RECURSIVE Relaxed(_, _, _)
Relaxed(graph, dist, k) ==
    IF k = 0 THEN dist
    ELSE Relaxed(graph,
                 [n \in DOMAIN dist |->
                     LET via == {dist[m] + BaseWeight(graph, m, n) :
                                    m \in {x \in DOMAIN dist :
                                             dist[x] < Inf /\ BaseWeight(graph, x, n) < Inf}}
                         all == via \cup {dist[n]}
                     IN  CHOOSE d \in all : \A e \in all : d <= e],
                 k - 1)

\* true shortest-path cost over base weights, Inf when goal is unreachable
ShortestCost(graph, start, goal) ==
    Relaxed(graph, [n \in DOMAIN graph.nodes |-> IF n = start THEN 0 ELSE Inf],
            Cardinality(DOMAIN graph.nodes))[goal]

\* the nodes that can be walked to from a node over corridors that are not
\* closed, the node itself included: k more rounds of expansion
RECURSIVE Expand(_, _, _, _)
Expand(graph, hm, seen, k) ==
    IF k = 0 THEN seen
    ELSE Expand(graph, hm,
                seen \cup {n \in DOMAIN graph.nodes :
                             \E m \in seen : /\ BaseWeight(graph, m, n) < Inf
                                             /\ ~is_closed(hm, m, n)},
                k - 1)

ReachableFrom(graph, hm, from) ==
    Expand(graph, hm, {from}, Cardinality(DOMAIN graph.nodes))

Routed == call.op = "route" /\ call.result.found

----------------------------------------------------------------------------
(* The severity setters called with any number (HazardSpec): call holds the
   last call and its arguments *)

\* update_hazard storing the severity under whatever type name it was given
update_hazard_unchecked(hm, update) ==
    LET hazard_type == lower(update.hazard_type)
        severity == Max(0, Min(ONE, update.severity))
    IN  [status |-> IF hazard_type \notin HazardTypes THEN 400 ELSE 200,
         hazard_map |-> set_node_hazard(hm, update.node_id, hazard_type, severity)]

\* HazardAPIHandler.update_hazard: the status of the answer and the HazardMap
\* it leaves
update_hazard(hm, update) ==
    LET hazard_type == lower(update.hazard_type)
    IN  IF hazard_type \notin HazardTypes
        THEN [status |-> 400, hazard_map |-> hm]
        ELSE LET severity == Max(0, Min(ONE, update.severity))
             IN  [status |-> 200,
                  hazard_map |-> set_node_hazard(hm, update.node_id, hazard_type, severity)]

SeverityAnyInputs == {-ONE, ONE \div 4, (5 * ONE) \div 2}

OccupancyAnyInputs == {-10, 0, 25, 50, 65, 80, 85, 100, 150}

UpdateTypeInputs == {"SMOKE", "fire", "lava"}

\* a call that leaves the HazardMap hm returned
Called(hm, c) ==
    /\ call = Idle
    /\ HAZARD_MAP' = hm
    /\ call' = c
    /\ UNCHANGED <<GRAPH, STAFF_TRACKER, serviceVars>>

SetNodeHazardAny ==
    \E t \in {"smoke", "fire"}, s \in SeverityAnyInputs :
        Called(set_node_hazard(HAZARD_MAP, "B", t, s),
               [op |-> "set_node_hazard", node_id |-> "B", hazard_type |-> t,
                severity |-> s])

SetEdgeHazardAny ==
    \E s \in SeverityAnyInputs :
        Called(set_edge_hazard(HAZARD_MAP, "A", "D", "smoke", s),
               [op |-> "set_edge_hazard", from_node |-> "A", to_node |-> "D",
                hazard_type |-> "smoke", severity |-> s])

SetCrowdPenaltyAny ==
    \E p \in OccupancyAnyInputs :
        Called(set_crowd_penalty(HAZARD_MAP, "D", p),
               [op |-> "set_crowd_penalty", node_id |-> "D", occupancy_rate |-> p])

\* hazard_handler.update_hazard(update)
UpdateHazard ==
    \E t \in UpdateTypeInputs, s \in SeverityAnyInputs :
        LET update == [node_id |-> "B", hazard_type |-> t, severity |-> s]
            r == update_hazard(HAZARD_MAP, update)
        IN  Called(r.hazard_map,
                   [op |-> "update_hazard", update |-> update, status |-> r.status])

ClearAllCalled == Called(clear_all_hazards(HAZARD_MAP), [op |-> "clear_all_hazards"])

HazardInit ==
    /\ GRAPH = Graph(SquareTopology.nodes, SquareTopology.edges)
    /\ HAZARD_MAP = NewHazardMap
    /\ STAFF_TRACKER = None
    /\ ServiceOff
    /\ call = Idle

HazardNext ==
    \/ SetNodeHazardAny
    \/ SetEdgeHazardAny
    \/ SetCrowdPenaltyAny
    \/ UpdateHazard
    \/ ClearAllCalled
    \/ Return

HazardSpec == HazardInit /\ [][HazardNext]_vars

----------------------------------------------------------------------------
(* hazard_aware_astar statement by statement: call holds the locals of the
   running call.  The loop compares scores with each other only (min over
   f_score, tentative_g < g_score[neighbor]), so the scores are kept relative
   to the least g_score; with costs >= 0 that is g_score[start] = 0 and the
   scores are the code's own. *)

LeastG(st) ==
    CHOOSE g \in {st.g_score[n] : n \in DOMAIN st.g_score} :
        \A n \in DOMAIN st.g_score : g <= st.g_score[n]

Rebase(st) ==
    [st EXCEPT !.g_score = [n \in DOMAIN @ |-> @[n] - LeastG(st)],
               !.f_score = [n \in DOMAIN @ |-> @[n] - LeastG(st)]]

SearchTopologies == {ShortcutTopology, StairsTopology, NegativeTopology}

\* set_node_hazard with a severity the caller chose below 0
SeverityBelowRange == -2 * ONE

SetNodeHazardBelowRange ==
    Mutate(set_node_hazard(HAZARD_MAP, "B", "smoke", SeverityBelowRange))

\* hazard_aware_astar is called: lines 234-247
StartSearch ==
    /\ call = Idle
    /\ \E start \in NodeIds \cup {UnknownNode}, goal \in NodeIds, avoid_crowds \in BOOLEAN :
         call' = IF start \notin DOMAIN GRAPH.nodes \/ goal \notin DOMAIN GRAPH.nodes
                 THEN [op |-> "returned", result |-> NoPath.path, found |-> FALSE]
                 ELSE [op |-> "search", start |-> start, goal |-> goal,
                       avoid_crowds |-> avoid_crowds,
                       st |-> [open_set |-> {start},
                               came_from |-> [k \in {} |-> ""],
                               g_score |-> (start :> 0),
                               f_score |-> (start :> heuristic(GRAPH, start, goal))]]
    /\ UNCHANGED <<GRAPH, HAZARD_MAP, STAFF_TRACKER, serviceVars>>

\* one round of "while open_set" that selects another node than the goal:
\* lines 249-286
ExpandCurrent ==
    /\ call.op = "search"
    /\ \E current \in LeastF(call.st) \ {call.goal} :
         call' = [call EXCEPT !.st =
                     Rebase(explore(GRAPH, call.goal, HAZARD_MAP, call.avoid_crowds,
                                    current, get_neighbors(GRAPH, current),
                                    [call.st EXCEPT !.open_set = @ \ {current}]))]
    /\ UNCHANGED <<GRAPH, HAZARD_MAP, STAFF_TRACKER, serviceVars>>

\* the round that selects the goal: _reconstruct_path is entered with
\* path = [current] (lines 254-255, 294)
SelectGoal ==
    /\ call.op = "search"
    /\ call.goal \in LeastF(call.st)
    /\ call' = [op |-> "reconstruct", goal |-> call.goal, current |-> call.goal,
                came_from |-> call.st.came_from]
    /\ UNCHANGED <<GRAPH, HAZARD_MAP, STAFF_TRACKER, serviceVars>>

\* "while current in came_from": one round (lines 295-297)
WalkBackStep ==
    /\ call.op = "reconstruct"
    /\ call.current \in DOMAIN call.came_from
    /\ call' = [call EXCEPT !.current = call.came_from[call.current]]
    /\ UNCHANGED <<GRAPH, HAZARD_MAP, STAFF_TRACKER, serviceVars>>

\* the walk back reached a node without predecessor: the path is returned
\* (lines 298-299, 256)
PathReturned ==
    /\ call.op = "reconstruct"
    /\ call.current \notin DOMAIN call.came_from
    /\ call' = [op |-> "returned", found |-> TRUE,
                result |-> reconstruct_path(call.came_from, call.goal)]
    /\ UNCHANGED <<GRAPH, HAZARD_MAP, STAFF_TRACKER, serviceVars>>

\* the open set is empty: (None, inf) is returned (lines 249, 288-289)
Exhausted ==
    /\ call.op = "search"
    /\ call.st.open_set = {}
    /\ call' = [op |-> "returned", found |-> FALSE, result |-> NoPath.path]
    /\ UNCHANGED <<GRAPH, HAZARD_MAP, STAFF_TRACKER, serviceVars>>

\* the caller takes what hazard_aware_astar returned
SearchReturns ==
    /\ call.op = "returned"
    /\ call' = Idle
    /\ UNCHANGED <<GRAPH, HAZARD_MAP, STAFF_TRACKER, serviceVars>>

\* the statements of a running call
Run == ExpandCurrent \/ SelectGoal \/ WalkBackStep \/ PathReturned \/ Exhausted

SearchInit ==
    /\ GRAPH \in {Graph(t.nodes, t.edges) : t \in SearchTopologies}
    /\ HAZARD_MAP = NewHazardMap
    /\ STAFF_TRACKER = None
    /\ ServiceOff
    /\ call = Idle

SearchNext ==
    \/ SetNodeHazardBelowRange
    \/ ClearAllHazards
    \/ StartSearch
    \/ ExpandCurrent
    \/ SelectGoal
    \/ WalkBackStep
    \/ PathReturned
    \/ Exhausted
    \/ SearchReturns

SearchSpec == SearchInit /\ [][SearchNext]_vars

\* a running call is not suspended for ever: it has the thread
FairSearchSpec == SearchSpec /\ WF_vars(Run)

----------------------------------------------------------------------------
(* The event loop of the service, statement by statement (LoopSpec).  uvicorn
   runs the app on one event loop; every endpoint is an "async def" coroutine
   that keeps the loop until it awaits.  requests holds the tasks that are
   ready to run, call the coroutine that runs. *)

Task(request, pc) == [request |-> request, pc |-> pc]

LoopRequestInputs ==
    {[kind |-> "add_closure", from_node |-> "A", to_node |-> "D"],
     [kind |-> "remove_closure", from_node |-> "D", to_node |-> "A"],
     [kind |-> "update_hazard", node_id |-> "D", hazard_type |-> "fire", severity |-> ONE],
     [kind |-> "update_crowd", node_id |-> "D", occupancy_rate |-> 100],
     [kind |-> "clear_hazards", node_id |-> "D"],
     RouteRequest("A", "C", TRUE)}

\* yields for an add_closure that awaited between its two set.add calls
yields_between_adds(c) ==
    \/ c.request.kind = "route" /\ c.pc = "start" /\ GRAPH = None
    \/ c.request.kind = "add_closure" /\ c.pc = "second"

\* the statement the coroutine is at is an await that suspends it: the only
\* await of these endpoints is get_route's "await load_graph_from_map_service()"
yields(c) == c.request.kind = "route" /\ c.pc = "start" /\ GRAPH = None

\* a request is accepted and its coroutine scheduled
Arrive ==
    /\ BagCardinality(requests) < MaxRequests
    /\ \E r \in LoopRequestInputs : requests' = requests (+) SetToBag({Task(r, "start")})
    /\ UNCHANGED <<GRAPH, HAZARD_MAP, STAFF_TRACKER, route_handler, emergency_handler,
                   hazard_handler, started, mapUp, response, assignLog, call>>

\* the loop is free and runs a ready task
Dispatch ==
    /\ call = Idle
    /\ \E t \in BagToSet(requests) :
         /\ requests' = requests (-) SetToBag({t})
         /\ call' = [op |-> "endpoint", request |-> t.request, pc |-> t.pc]
    /\ UNCHANGED <<GRAPH, HAZARD_MAP, STAFF_TRACKER, route_handler, emergency_handler,
                   hazard_handler, started, mapUp, response, assignLog>>

\* the running coroutine awaits and is suspended; it resumes after the await
Yield ==
    /\ call.op = "endpoint"
    /\ yields(call)
    /\ requests' = requests (+)
                      SetToBag({Task(call.request,
                                     IF call.request.kind = "route" THEN "loaded"
                                     ELSE call.pc)})
    /\ call' = Idle
    /\ UNCHANGED <<GRAPH, HAZARD_MAP, STAFF_TRACKER, route_handler, emergency_handler,
                   hazard_handler, started, mapUp, response, assignLog>>

\* the coroutine ends with an answer
Answer(status) ==
    /\ Respond(call.request, FALSE, NoLoad, status, "", 0)
    /\ call' = Idle

\* a hazard endpoint without handler: hazard_handler.<method> raises
HazardEndpointFails ==
    /\ call.op = "endpoint"
    /\ call.request.kind # "route"
    /\ hazard_handler = None
    /\ Answer(500)
    /\ UNCHANGED <<GRAPH, HAZARD_MAP, STAFF_TRACKER, route_handler, emergency_handler,
                   hazard_handler, started, mapUp, requests, assignLog>>

\* HazardMap.add_closure / remove_closure: self.closures.add / discard of
\* (from_node, to_node)
FirstDirection ==
    /\ call.op = "endpoint"
    /\ call.request.kind \in {"add_closure", "remove_closure"}
    /\ call.pc = "start"
    /\ hazard_handler # None
    /\ ~yields(call)
    /\ LET pair == <<call.request.from_node, call.request.to_node>>
       IN  HAZARD_MAP' = [HAZARD_MAP EXCEPT !.closures =
                            IF call.request.kind = "add_closure" THEN @ \cup {pair}
                            ELSE @ \ {pair}]
    /\ call' = [call EXCEPT !.pc = "second"]
    /\ UNCHANGED <<GRAPH, STAFF_TRACKER, serviceVars>>

\* self.closures.add / discard of (to_node, from_node), and the answer
SecondDirection ==
    /\ call.op = "endpoint"
    /\ call.request.kind \in {"add_closure", "remove_closure"}
    /\ call.pc = "second"
    /\ ~yields(call)
    /\ LET pair == <<call.request.to_node, call.request.from_node>>
       IN  HAZARD_MAP' = [HAZARD_MAP EXCEPT !.closures =
                            IF call.request.kind = "add_closure" THEN @ \cup {pair}
                            ELSE @ \ {pair}]
    /\ Answer(200)
    /\ UNCHANGED <<GRAPH, STAFF_TRACKER, route_handler, emergency_handler, hazard_handler,
                   started, mapUp, requests, assignLog>>

\* update_hazard, update_crowd and clear_hazards: one dict write each
HazardWrite ==
    /\ call.op = "endpoint"
    /\ call.request.kind \in {"update_hazard", "update_crowd", "clear_hazards"}
    /\ hazard_handler # None
    /\ ~yields(call)
    /\ CASE call.request.kind = "update_hazard" ->
              LET r == update_hazard(HAZARD_MAP, call.request)
              IN  HAZARD_MAP' = r.hazard_map /\ Answer(r.status)
         [] call.request.kind = "update_crowd" ->
              /\ HAZARD_MAP' = set_crowd_penalty(HAZARD_MAP, call.request.node_id,
                                                 call.request.occupancy_rate)
              /\ Answer(200)
         [] call.request.kind = "clear_hazards" ->
              /\ HAZARD_MAP' = clear_node_hazards(HAZARD_MAP, call.request.node_id)
              /\ Answer(200)
    /\ UNCHANGED <<GRAPH, STAFF_TRACKER, route_handler, emergency_handler, hazard_handler,
                   started, mapUp, requests, assignLog>>

\* get_route resumed after "await load_graph_from_map_service()": 503 without
\* graph, AttributeError (500) without route handler
RouteAfterLoad ==
    /\ call.op = "endpoint"
    /\ call.request.kind = "route"
    /\ call.pc = "loaded"
    /\ \E o \in load_graph_from_map_service(GRAPH, HAZARD_MAP) :
         /\ GRAPH' = o.GRAPH
         /\ HAZARD_MAP' = o.HAZARD_MAP
         /\ IF o.GRAPH = None \/ route_handler = None
            THEN /\ Respond(call.request, TRUE, o,
                            IF o.GRAPH = None THEN 503 ELSE 500, "", 0)
                 /\ call' = Idle
            ELSE /\ call' = [call EXCEPT !.pc = "handler"]
                 /\ UNCHANGED response
    /\ UNCHANGED <<STAFF_TRACKER, route_handler, emergency_handler, hazard_handler,
                   started, mapUp, requests, assignLog>>

\* get_route with a graph loaded: route_handler.get_route(request) validates
\* the two nodes and calls hazard_aware_astar, whose locals call holds from
\* here on; snapshot is the HazardMap the call was entered with
RouteBegins ==
    /\ call.op = "endpoint"
    /\ call.request.kind = "route"
    /\ call.pc \in {"start", "handler"}
    /\ ~yields(call)
    /\ IF route_handler = None
       THEN Answer(500)
       ELSE IF \/ call.request.from_node \notin DOMAIN route_handler.graph.nodes
               \/ call.request.to_node \notin DOMAIN route_handler.graph.nodes
       THEN Answer(404)
       ELSE /\ call' = [op |-> "search", start |-> call.request.from_node,
                        goal |-> call.request.to_node,
                        avoid_crowds |-> call.request.avoid_crowds,
                        st |-> [open_set |-> {call.request.from_node},
                                came_from |-> [k \in {} |-> ""],
                                g_score |-> (call.request.from_node :> 0),
                                f_score |-> (call.request.from_node :>
                                               heuristic(route_handler.graph,
                                                         call.request.from_node,
                                                         call.request.to_node))],
                        snapshot |-> HAZARD_MAP]
            /\ UNCHANGED response
    /\ UNCHANGED <<GRAPH, HAZARD_MAP, STAFF_TRACKER, route_handler, emergency_handler,
                   hazard_handler, started, mapUp, requests, assignLog>>

\* the service after startup(): the shortcut topology was loaded and the
\* handlers built, or the load failed
LoopInit ==
    /\ mapUp \in BOOLEAN
    /\ started = TRUE
    /\ \/ /\ GRAPH = Graph(ShortcutTopology.nodes, ShortcutTopology.edges)
          /\ HAZARD_MAP = LoadClosures(NewHazardMap, ShortcutTopology.closures,
                                       ShortcutTopology.edges).hazard_map
          /\ STAFF_TRACKER = create_mock_staff_tracker(GRAPH, num_per_role)
          /\ route_handler = RouteAPIHandler(GRAPH, HAZARD_MAP)
          /\ emergency_handler = EmergencyAPIHandler(GRAPH, HAZARD_MAP, STAFF_TRACKER)
          /\ hazard_handler = HazardAPIHandler(HAZARD_MAP)
       \/ /\ GRAPH = None
          /\ HAZARD_MAP = NewHazardMap
          /\ STAFF_TRACKER = None
          /\ route_handler = None /\ emergency_handler = None /\ hazard_handler = None
    /\ requests = EmptyBag
    /\ response = None
    /\ assignLog = EmptyMap
    /\ call = Idle

LoopNext ==
    \/ Arrive
    \/ Dispatch
    \/ Yield
    \/ HazardEndpointFails
    \/ FirstDirection
    \/ SecondDirection
    \/ HazardWrite
    \/ RouteAfterLoad
    \/ RouteBegins
    \/ ExpandCurrent
    \/ SelectGoal
    \/ WalkBackStep
    \/ PathReturned
    \/ Exhausted
    \/ SearchReturns

LoopSpec == LoopInit /\ [][LoopNext]_vars

----------------------------------------------------------------------------
(* Claims about hazard_aware_astar and multi_destination_route (RouteSpec) *)

\* C1: whenever a pair (a, b) is closed, no path hazard_aware_astar returns has
\* a and b as consecutive nodes, in either order.
C1_ClosedCorridorNeverUsed ==
    Routed =>
        \A i \in Steps(call.result.path) :
            LET a == call.result.path[i]
                b == call.result.path[i + 1]
            IN  ~is_closed(HAZARD_MAP, a, b) /\ ~is_closed(HAZARD_MAP, b, a)

\* C1 witness: B-C is closed and a route from C to B was returned (a detour)
C1_Witness ==
    /\ Routed
    /\ call.start = "C" /\ call.goal = "B"
    /\ is_closed(HAZARD_MAP, "B", "C")
    /\ BaseWeight(GRAPH, "C", "B") < Inf

\* C2 (as claimed): with an empty HazardMap, for a goal reachable from start,
\* the returned cost is the true shortest-path cost over base weights.
C2_CostIsShortest ==
    (/\ call.op = "route"
     /\ HAZARD_MAP = NewHazardMap
     /\ call.start \in DOMAIN GRAPH.nodes
     /\ ShortestCost(GRAPH, call.start, call.goal) < Inf)
    => /\ call.result.found
       /\ call.result.cost = ShortestCost(GRAPH, call.start, call.goal)

\* C3: with avoid_crowds = false the returned cost is the corridor cost of the
\* path plus, for every step that enters a node on fire, that node's penalty,
\* which is at least 10 times the fire severity.
C3_FirePenaltyAlwaysCharged ==
    (Routed /\ ~call.avoid_crowds) =>
        /\ call.result.cost = CorridorCost(GRAPH, HAZARD_MAP, call.result.path)
                              + FireCharges(HAZARD_MAP, call.result.path)
        /\ \A n \in Entered(call.result.path) :
              HasFire(HAZARD_MAP, n) =>
                  get_node_penalty(HAZARD_MAP, n) >= 10 * HAZARD_MAP.node_hazards[n]["fire"]

\* C3 witness: a route without avoid_crowds passes through a burning node that
\* is not its goal
C3_Witness ==
    /\ Routed /\ ~call.avoid_crowds
    /\ \E i \in Steps(call.result.path) :
          /\ i + 1 < Len(call.result.path)
          /\ HasFire(HAZARD_MAP, call.result.path[i + 1])
          /\ HAZARD_MAP.node_hazards[call.result.path[i + 1]]["fire"] > 0

\* C4 (as claimed): when smoke at severity 1.0 on one node is the only hazard,
\* a route entering that node costs exactly 5 more than its corridors, whatever
\* avoid_crowds is.
C4_SmokeAlwaysCharged ==
    \A n \in NodeIds :
        (/\ Routed
         /\ HAZARD_MAP.node_hazards = (n :> ("smoke" :> ONE))
         /\ HAZARD_MAP.edge_hazards = EmptyMap
         /\ n \in Entered(call.result.path))
        => call.result.cost
             = CorridorCost(GRAPH, HAZARD_MAP, call.result.path)
               + 5 * ONE * Cardinality({i \in Steps(call.result.path) :
                                           call.result.path[i + 1] = n})

\* C5 (as claimed): raising the severity of one hazard on a node or corridor
\* the returned path traverses never lowers the cost returned for the same
\* graph, start, goal and avoid_crowds.
C5_RaisingSeverityNeverLowersCost ==
    Routed =>
        /\ \A n \in Entered(call.result.path) \cap DOMAIN HAZARD_MAP.node_hazards :
           \A t \in DOMAIN HAZARD_MAP.node_hazards[n] :
           \A s \in {x \in SeverityInputs : x > HAZARD_MAP.node_hazards[n][t]} :
           \A again \in hazard_aware_astar(GRAPH, call.start, call.goal,
                            set_node_hazard(HAZARD_MAP, n, t, s), call.avoid_crowds) :
               again.cost >= call.result.cost
        /\ \A i \in Steps(call.result.path) :
           LET e == <<call.result.path[i], call.result.path[i + 1]>>
           IN  e \in DOMAIN HAZARD_MAP.edge_hazards =>
               \A t \in DOMAIN HAZARD_MAP.edge_hazards[e] :
               \A s \in {x \in SeverityInputs : x > HAZARD_MAP.edge_hazards[e][t]} :
               \A again \in hazard_aware_astar(GRAPH, call.start, call.goal,
                                set_edge_hazard(HAZARD_MAP, e[1], e[2], t, s),
                                call.avoid_crowds) :
                   again.cost >= call.result.cost

\* C7: multi_destination_route returns (None, inf), or a path that begins at
\* start and contains every listed destination.
C7_TourCoversEveryDestination ==
    call.op = "multi" =>
        \/ call.result = NoPath
        \/ /\ call.result.found
           /\ call.result.path # << >>
           /\ call.result.path[1] = call.start
           /\ \A i \in DOMAIN call.destinations :
                 \E j \in DOMAIN call.result.path :
                     call.result.path[j] = call.destinations[i]

\* C7 witness: a tour over two different destinations was returned while a
\* corridor was closed
C7_Witness ==
    /\ call.op = "multi" /\ call.result.found
    /\ Len(call.destinations) >= 2
    /\ call.destinations[1] # call.destinations[2]
    /\ HAZARD_MAP.closures # {}

----------------------------------------------------------------------------
(* Dispatch claims *)

\* the staff record a tracker holds under an id
StaffById(tracker, id) ==
    LET i == CHOOSE j \in DOMAIN tracker.staff : tracker.staff[j].id = id
    IN  tracker.staff[i]

Eligible(tracker, id, role) ==
    /\ id \in StaffIdsOf(tracker)
    /\ StaffById(tracker, id).role = role
    /\ StaffById(tracker, id).status = "available"

\* who an assignment names, "" for None
Winner(assignment) == IF assignment = None THEN "" ELSE assignment.staff_id

\* C8: whatever add_staff, update_status and update_position calls came
\* before, the staff member find_nearest_responder returns and every member
\* find_multiple_responders returns is, at the time of the call, AVAILABLE
\* and of the incident's required role.
C8_OnlyAvailableStaffOfRole ==
    /\ (call.op = "find_nearest" /\ call.result # None)
          => Eligible(STAFF_TRACKER, call.result.staff_id, call.incident.required_role)
    /\ call.op = "find_multiple"
          => \A j \in DOMAIN call.result :
                Eligible(STAFF_TRACKER, call.result[j].staff_id,
                         call.incident.required_role)

\* a responder standing elsewhere was returned although a staff member of
\* another role, or one that is not available, stands on the incident's node
C8_Witness ==
    /\ \/ call.op = "find_nearest" /\ call.result # None
          /\ call.result.current_position # call.incident.location
       \/ call.op = "find_multiple" /\ Len(call.result) = 1
          /\ call.result[1].current_position # call.incident.location
    /\ \E i \in DOMAIN STAFF_TRACKER.staff :
         /\ STAFF_TRACKER.staff[i].current_position = call.incident.location
         /\ \/ STAFF_TRACKER.staff[i].role # call.incident.required_role
            \/ STAFF_TRACKER.staff[i].status # "available"

\* the same incident with another priority
WithPriority(incident, priority) == [incident EXCEPT !.priority = priority]

\* two available candidates of the required role whose ETAs differ were
\* evaluated by the call
TwoCandidatesApart ==
    /\ call.op = "find_nearest"
    /\ \E a, b \in find_multiple_responders(GRAPH, call.incident, STAFF_TRACKER,
                                            HAZARD_MAP, 2) :
         /\ Len(a) = 2
         /\ a[1].eta_seconds # a[2].eta_seconds

\* C9: find_nearest_responder returns the same staff member for a critical
\* incident as for a low incident at the same location: the priority weight
\* multiplies every candidate's ETA alike and never changes the winner.
C9_PriorityNeverChangesWinner ==
    call.op = "find_nearest"
       => \A priority \in {"critical", "low"} \ {lower(call.incident.priority)} :
             \E r \in find_nearest_responder(GRAPH, WithPriority(call.incident, priority),
                                             STAFF_TRACKER, HAZARD_MAP) :
                Winner(r) = Winner(call.result)

\* the second of two candidates at different ETAs won the call
C9_Witness ==
    /\ TwoCandidatesApart
    /\ lower(call.incident.priority) = "critical"
    /\ call.result # None
    /\ call.result.staff_id = "S2"

\* C9 as stated: some configuration with two candidates at different
\* distances is reached in which the critical incident's winner is not the
\* low incident's winner.
C9_PriorityFlipsWinner ==
    <>(/\ TwoCandidatesApart
       /\ lower(call.incident.priority) = "critical"
       /\ \A r \in find_nearest_responder(GRAPH, WithPriority(call.incident, "low"),
                                          STAFF_TRACKER, HAZARD_MAP) :
             Winner(r) # Winner(call.result))

----------------------------------------------------------------------------
(* Service claims *)

\* C6: however assign requests (POST /api/emergency/assign and
\* GET /api/emergency/nearest) interleave, no staff member of a staff tracker
\* is returned as the assigned responder by two of them: the winner is
\* selected and flipped to RESPONDING before any other dispatch evaluation.
C6_NoDoubleAssignment ==
    \A id \in DOMAIN assignLog : assignLog[id] <= 1

\* two assign requests were answered with a responder by the same tracker,
\* the later one after waiting for a load
C6_Witness ==
    /\ response # None
    /\ response.kind \in {"assign", "nearest"}
    /\ response.status = 200
    /\ response.lazy
    /\ Cardinality(DOMAIN assignLog) >= 2

\* C10: a GET /api/route that found no graph loaded (the startup fetch had
\* failed) and whose own retry of the load succeeded is answered by the route
\* handler, with a route or a 404, not with an internal error.
C10_LazyRetryAnswersRoute ==
    (/\ response # None
     /\ response.kind = "route"
     /\ response.lazy
     /\ response.loaded)
        => response.status \in {200, 404}

----------------------------------------------------------------------------
(* Claims about the greedy tour and the closure operations (RouteSpec) *)

\* C15: multi_destination_route returns (None, inf) whenever, at some step of
\* its tour, a destination still to visit cannot be walked to from the
\* position the tour stands at, even when others can: a returned tour never
\* stood at such a step.
C15_UnreachableDestinationFailsTour ==
    (call.op = "multi" /\ call.result.found)
        => LET visits == call.result.visits
               position(k) == IF k = 0 THEN call.start ELSE visits[k]
               remaining(k) == {call.destinations[i] : i \in DOMAIN call.destinations}
                                  \ {visits[j] : j \in 1..k}
           IN  \A k \in 0..Len(visits) :
                  remaining(k) \subseteq ReachableFrom(GRAPH, HAZARD_MAP, position(k))

\* a tour failed although every destination can be walked to from start: one
\* of them cannot be walked to from another
C15_Witness ==
    /\ call.op = "multi"
    /\ call.result = NoPath
    /\ \A i \in DOMAIN call.destinations :
          call.destinations[i] \in ReachableFrom(GRAPH, HAZARD_MAP, call.start) \ {call.start}
    /\ \E i, j \in DOMAIN call.destinations :
          call.destinations[j] \notin ReachableFrom(GRAPH, HAZARD_MAP, call.destinations[i])

\* C19: add_closure and remove_closure are idempotent and do not depend on the
\* order of their two arguments, and remove_closure of a pair that is not
\* closed changes nothing.
C19_ClosureOpsIdempotentAndSymmetric ==
    \A c \in ClosureInputs :
       LET added == add_closure(HAZARD_MAP, c[1], c[2])
           removed == remove_closure(HAZARD_MAP, c[1], c[2])
       IN  /\ add_closure(added, c[1], c[2]) = added
           /\ add_closure(HAZARD_MAP, c[2], c[1]) = added
           /\ remove_closure(removed, c[1], c[2]) = removed
           /\ remove_closure(HAZARD_MAP, c[2], c[1]) = removed
           /\ (~is_closed(HAZARD_MAP, c[1], c[2]) /\ ~is_closed(HAZARD_MAP, c[2], c[1]))
                  => removed = HAZARD_MAP

\* a corridor is closed, hazards are recorded, and another corridor is open
C19_Witness ==
    /\ \E c \in ClosureInputs : is_closed(HAZARD_MAP, c[1], c[2])
    /\ \E c \in ClosureInputs : ~is_closed(HAZARD_MAP, c[1], c[2])
    /\ DOMAIN HAZARD_MAP.node_hazards # {}

\* the HazardMap after add_closure(a, b) followed by remove_closure(a, b)
Reopened(hm, a, b) == remove_closure(add_closure(hm, a, b), a, b)

\* C20: from a state where (a, b) is not closed, add_closure(a, b) followed by
\* remove_closure(a, b) restores the closure set, so that a route query
\* returns what it returned before and a goal that add_closure(a, b) cut off
\* is reached again.
C20_AddThenRemoveRestores ==
    \A c \in ClosureInputs :
       (~is_closed(HAZARD_MAP, c[1], c[2]) /\ ~is_closed(HAZARD_MAP, c[2], c[1]))
          => /\ Reopened(HAZARD_MAP, c[1], c[2]).closures = HAZARD_MAP.closures
             /\ ~is_closed(Reopened(HAZARD_MAP, c[1], c[2]), c[1], c[2])
             /\ ~is_closed(Reopened(HAZARD_MAP, c[1], c[2]), c[2], c[1])
             /\ call.op = "route"
                   => call.result \in hazard_aware_astar(GRAPH, call.start, call.goal,
                                                         Reopened(HAZARD_MAP, c[1], c[2]),
                                                         call.avoid_crowds)

\* a route was found through an open corridor whose closure cuts the goal off
C20_Witness ==
    /\ Routed
    /\ \E c \in ClosureInputs :
          /\ ~is_closed(HAZARD_MAP, c[1], c[2]) /\ ~is_closed(HAZARD_MAP, c[2], c[1])
          /\ \E i \in 1..(Len(call.result.path) - 1) :
                {call.result.path[i], call.result.path[i + 1]} = {c[1], c[2]}
          /\ hazard_aware_astar(GRAPH, call.start, call.goal,
                                add_closure(HAZARD_MAP, c[1], c[2]),
                                call.avoid_crowds) = {NoPath}

----------------------------------------------------------------------------
(* Claims about loading and closures in the service (Spec) *)

\* a reload whose load returned False is answered
ReloadFails ==
    /\ BagCardinality(requests') < BagCardinality(requests)
    /\ response'.kind = "reload"
    /\ response'.status = 503

C12_RequestsServedOnLoadedGraph ==
    (/\ response # None
     /\ response.kind = "route"
     /\ response.status \in {200, 404})
        => route_handler.graph = GRAPH

\* C17: in every state of the service, (a, b) is closed if and only if (b, a)
\* is closed.
C17_ClosuresSymmetric ==
    HAZARD_MAP # None
        => \A c \in HAZARD_MAP.closures : <<c[2], c[1]>> \in HAZARD_MAP.closures

\* after a reload, one corridor is closed by the payload's closure list and
\* another one by POST /api/hazards/closure or an earlier load
C17_Witness ==
    /\ response # None
    /\ response.kind = "reload"
    /\ response.status = 200
    /\ Cardinality(HAZARD_MAP.closures) = 4

----------------------------------------------------------------------------
(* Claims about the search loop (FairSearchSpec) *)

\* C14: every call of hazard_aware_astar returns: it selects the goal and
\* returns the reconstructed path, or empties the open set and returns
\* (None, inf).
C14_SearchTerminates ==
    (call.op \in {"search", "reconstruct"}) ~> (call.op = "returned")

----------------------------------------------------------------------------
(* Claims about the severity setters (HazardSpec) *)

\* C16: after any sequence of set_node_hazard, set_edge_hazard and
\* set_crowd_penalty calls, every severity stored in node_hazards and
\* edge_hazards lies between 0 and 1.
C16_StoredSeveritiesInUnitRange ==
    /\ \A n \in DOMAIN HAZARD_MAP.node_hazards :
          \A t \in DOMAIN HAZARD_MAP.node_hazards[n] :
             HAZARD_MAP.node_hazards[n][t] \in 0..ONE
    /\ \A e \in DOMAIN HAZARD_MAP.edge_hazards :
          \A t \in DOMAIN HAZARD_MAP.edge_hazards[e] :
             HAZARD_MAP.edge_hazards[e][t] \in 0..ONE

\* the crowd ramp as stated: severity in units of 1/ONE for p in 0..100
Ramp(p) ==
    IF p <= 50 THEN 0
    ELSE IF p < 80 THEN ((p - 50) * (ONE \div 2)) \div 30
    ELSE IF p = 80 THEN ONE \div 2
    ELSE IF p < 100 THEN ONE \div 2 + ((p - 80) * (ONE \div 2)) \div 20
    ELSE ONE

\* the crowd severity set_crowd_penalty(node_id, p) stores
CrowdSeverity(node_id, p) ==
    set_crowd_penalty(HAZARD_MAP, node_id, p).node_hazards[node_id]["crowd"]

----------------------------------------------------------------------------
(* Claims about the event loop (LoopSpec) *)

\* C13: whatever the interleaving of hazard requests with routing requests,
\* every round of a hazard_aware_astar run reads the HazardMap the run was
\* entered with, and that HazardMap has no closure applied in one direction
\* only.
C13_SearchReadsOneHazardMap ==
    call.op = "search"
        => /\ HAZARD_MAP = call.snapshot
           /\ \A c \in HAZARD_MAP.closures : <<c[2], c[1]>> \in HAZARD_MAP.closures

\* a search is in its loop, A-D was closed by a request before it, and a
\* request that reopens A-D waits for the loop
C13_Witness ==
    /\ call.op = "search"
    /\ call.st.came_from # << >>
    /\ <<"A", "D">> \in HAZARD_MAP.closures
    /\ \E t \in BagToSet(requests) : t.request.kind = "remove_closure"

----------------------------------------------------------------------------
(* Claims about HazardAPIHandler.update_hazard (HazardSpec) *)

\* update_hazard was called with a hazard_type that names no hazard type
UnknownTypeUpdate ==
    /\ call.op = "update_hazard"
    /\ call.update.hazard_type \notin
          {"smoke", "crowd", "fire", "spill", "structural",
           "SMOKE", "CROWD", "FIRE", "SPILL", "STRUCTURAL"}

\* C21: update_hazard with a hazard_type outside smoke, crowd, fire, spill,
\* structural is answered 400 and leaves closures, node_hazards and
\* edge_hazards as they were before the call.
C21_UnknownTypeRejected ==
    [][UnknownTypeUpdate' /\ call = Idle
          => call'.status = 400 /\ HAZARD_MAP' = HAZARD_MAP]_vars

\* an update with an unknown type was answered 400 while hazards were stored
C21_Witness ==
    /\ UnknownTypeUpdate
    /\ call.status = 400
    /\ DOMAIN HAZARD_MAP.node_hazards # {}
    /\ DOMAIN HAZARD_MAP.edge_hazards # {}

----------------------------------------------------------------------------
(* Claims about the returned path and its cost (RouteSpec) *)

\* node penalties charged along a path: of every entered node when
\* avoid_crowds is true, of the entered nodes on fire otherwise
NodeCharges(hm, path, avoid_crowds) ==
    LET F(i) == IF avoid_crowds \/ HasFire(hm, path[i + 1])
                THEN get_node_penalty(hm, path[i + 1]) ELSE 0
    IN  SumOver(F, path, Steps(path))

\* C26: a path hazard_aware_astar returns starts at start, ends at goal,
\* follows corridors of the graph, and the returned cost is the sum along that
\* path of base weight, corridor penalty and charged node penalty.
C26_CostIsCostOfReturnedPath ==
    Routed =>
        LET path == call.result.path
        IN  /\ path[1] = call.start
            /\ path[Len(path)] = call.goal
            /\ \A i \in Steps(path) : BaseWeight(GRAPH, path[i], path[i + 1]) < Inf
            /\ call.result.cost = CorridorCost(GRAPH, HAZARD_MAP, path)
                                     + NodeCharges(HAZARD_MAP, path, call.avoid_crowds)

\* a route over three corridors was returned under avoid_crowds whose cost
\* charges a node penalty and a corridor penalty
C26_Witness ==
    /\ Routed
    /\ call.avoid_crowds
    /\ Len(call.result.path) >= 3
    /\ NodeCharges(HAZARD_MAP, call.result.path, TRUE) > 0
    /\ CorridorCost(GRAPH, HAZARD_MAP, call.result.path)
          > CorridorCost(GRAPH, NewHazardMap, call.result.path)

\* C25: a call of assign_responder_to_incident sets the status of exactly
\* the staff member it returns to RESPONDING and leaves every other record,
\* and that member's other fields, as they were; when it returns None the
\* tracker is as it was.
C25_AssignChangesOnlyTheReturnedMember ==
    [][call = Idle /\ call'.op = "assign"
         => IF call'.result = None
            THEN STAFF_TRACKER' = STAFF_TRACKER
            ELSE /\ DOMAIN STAFF_TRACKER'.staff = DOMAIN STAFF_TRACKER.staff
                 /\ \A i \in DOMAIN STAFF_TRACKER.staff :
                      STAFF_TRACKER'.staff[i] =
                         IF STAFF_TRACKER.staff[i].id = call'.result.staff_id
                         THEN [STAFF_TRACKER.staff[i] EXCEPT !.status = "responding"]
                         ELSE STAFF_TRACKER.staff[i]]_vars

\* an assignment was made while another available member of the same role
\* was registered, and that member is still available
C25_Witness ==
    /\ call.op = "assign" /\ call.result # None
    /\ StaffById(STAFF_TRACKER, call.result.staff_id).status = "responding"
    /\ StaffById(call.before, call.result.staff_id).status = "available"
    /\ \E i \in DOMAIN STAFF_TRACKER.staff :
         /\ STAFF_TRACKER.staff[i].id # call.result.staff_id
         /\ STAFF_TRACKER.staff[i].role = call.result.staff_role
         /\ STAFF_TRACKER.staff[i].status = "available"

\* the cost of the route find_nearest_responder finds for a staff member
RouteCosts(staff, incident) ==
    {r.cost : r \in {q \in hazard_aware_astar(GRAPH, staff.current_position,
                                              incident.location, HAZARD_MAP, TRUE)
                       : q.found}}

\* C28: the responder find_nearest_responder returns is a nearest one: no
\* other available staff member of the required role has a route to the
\* incident of strictly smaller cost than the returned distance.
C28_ReturnedResponderIsNearest ==
    (call.op = "find_nearest" /\ call.result # None)
       => \A i \in DOMAIN STAFF_TRACKER.staff :
            LET staff == STAFF_TRACKER.staff[i]
            IN  Eligible(STAFF_TRACKER, staff.id, call.incident.required_role)
                  => \A c \in RouteCosts(staff, call.incident) :
                        c >= call.result.distance

\* the ETAs find_multiple_responders computes for a staff member
RouteEtas(staff, incident) ==
    {calculate_eta_with_role(c, staff.role) : c \in RouteCosts(staff, incident)}

\* the staff ids a list of assignments names
Returned(assignments) == {assignments[j].staff_id : j \in DOMAIN assignments}

\* an available member of the required role with a route to the incident
\* that the call did not return
LeftOut(staff) ==
    /\ Eligible(STAFF_TRACKER, staff.id, call.incident.required_role)
    /\ staff.id \notin Returned(call.result)
    /\ RouteCosts(staff, call.incident) # {}

\* an assignment without its priority field
Unlabelled(a) == [staff_id |-> a.staff_id, path |-> a.path, distance |-> a.distance,
                  eta_seconds |-> a.eta_seconds]

\* C23: find_multiple_responders(.., k) with k >= 1 returns at most k
\* assignments, each for a different available staff member of the required
\* role with a route to the incident, in order of non-decreasing
\* eta_seconds; no candidate left out has a smaller eta_seconds than one
\* returned; and the same members, routes and ETAs are returned in the same
\* order for every priority of the incident.
C23_TopKByEta ==
    call.op = "find_multiple"
       => LET result == call.result
          IN  /\ Len(result) <= call.num_responders
              /\ \A i, j \in DOMAIN result :
                    /\ i # j => result[i].staff_id # result[j].staff_id
                    /\ i < j => result[i].eta_seconds <= result[j].eta_seconds
              /\ \A j \in DOMAIN result :
                    /\ Eligible(STAFF_TRACKER, result[j].staff_id,
                                call.incident.required_role)
                    /\ result[j].distance
                          \in RouteCosts(StaffById(STAFF_TRACKER, result[j].staff_id),
                                         call.incident)
              /\ \A i \in DOMAIN STAFF_TRACKER.staff :
                    LeftOut(STAFF_TRACKER.staff[i])
                       => \E eta \in RouteEtas(STAFF_TRACKER.staff[i], call.incident) :
                             \A j \in DOMAIN result : eta >= result[j].eta_seconds
              /\ \A priority \in {"critical", "high", "low"} :
                    \E other \in find_multiple_responders(GRAPH,
                                    WithPriority(call.incident, priority),
                                    STAFF_TRACKER, HAZARD_MAP, call.num_responders) :
                       /\ Len(other) = Len(result)
                       /\ \A j \in DOMAIN result :
                             Unlabelled(other[j]) = Unlabelled(result[j])

\* one responder was asked for, the member registered second was returned
\* and the member registered first, at a larger ETA, was left out
C23_Witness ==
    /\ call.op = "find_multiple" /\ call.num_responders = 1
    /\ Len(call.result) = 1 /\ call.result[1].staff_id = "S2"
    /\ LeftOut(StaffById(STAFF_TRACKER, "S1"))
    /\ \A eta \in RouteEtas(StaffById(STAFF_TRACKER, "S1"), call.incident) :
          eta > call.result[1].eta_seconds

----------------------------------------------------------------------------
(* Dispatch requests on one staff tracker.  An EmergencyAPIHandler is      *)
(* built on a Graph, a HazardMap and a StaffTracker; its owner registers   *)
(* staff, sets their status, and asks for one responder or for several.    *)
(* assignLog holds the staff members a multi-responder dispatch returned   *)
(* whose status has not been set to AVAILABLE since.                       *)

\* the tracker is written; the members in cleared were set AVAILABLE
Roster(tracker, cleared) ==
    /\ call = Idle
    /\ STAFF_TRACKER' = tracker
    /\ assignLog' = [id \in DOMAIN assignLog \ cleared |-> assignLog[id]]
    /\ UNCHANGED <<GRAPH, HAZARD_MAP, route_handler, emergency_handler, hazard_handler,
                   started, mapUp, requests, response, call>>

\* staff_tracker.add_staff(StaffMember(...)): a new id, or a new record
\* under an id already held
RegisterStaff ==
    \E id \in StaffIdsOf(STAFF_TRACKER)
              \cup {StaffIdPool[i] : i \in {Len(STAFF_TRACKER.staff) + 1} \cap 1..MaxStaff},
       position \in PositionInputs, status \in StatusInputs :
        Roster(add_staff(STAFF_TRACKER, StaffMember(id, "security", position, status)),
               IF status = "available" THEN {id} ELSE {})

\* staff_tracker.update_status(staff_id, status)
SetStatus ==
    \E id \in StaffIdsOf(STAFF_TRACKER), status \in StatusInputs :
        Roster(update_status(STAFF_TRACKER, id, status),
               IF status = "available" THEN {id} ELSE {})

\* POST /api/emergency/assign_multiple: emergency_handler.assign_multiple_responders
AssignMultiple ==
    /\ call = Idle
    /\ \E location \in LocationInputs, role \in {"SECURITY", "janitor"}, k \in 1..2 :
         LET request == EmergencyRequest("assign_multiple", location, "high", role)
         IN  \E r \in assign_multiple_responders(emergency_handler, HAZARD_MAP,
                                                 STAFF_TRACKER, request, k) :
               /\ call' = [op |-> "assign_multiple", request |-> request,
                           num_responders |-> k, status |-> r.status,
                           staff_ids |-> r.staff_ids]
               /\ assignLog' = [id \in DOMAIN assignLog
                                       \cup {r.staff_ids[j] : j \in DOMAIN r.staff_ids}
                                  |-> 1]
    /\ UNCHANGED <<GRAPH, HAZARD_MAP, STAFF_TRACKER, route_handler, emergency_handler,
                   hazard_handler, started, mapUp, requests, response>>

\* POST /api/emergency/assign: emergency_handler.assign_nearest_responder
AssignNearest ==
    /\ call = Idle
    /\ \E location \in LocationInputs :
         LET request == EmergencyRequest("assign", location, "critical", "security")
         IN  \E r \in assign_nearest_responder(emergency_handler, HAZARD_MAP,
                                               STAFF_TRACKER, request) :
               /\ call' = [op |-> "assign_nearest", request |-> request,
                           status |-> r.status,
                           staff_ids |-> IF r.status = 200 THEN <<r.staff_id>> ELSE << >>]
               /\ STAFF_TRACKER' = r.tracker
    /\ UNCHANGED <<GRAPH, HAZARD_MAP, route_handler, emergency_handler, hazard_handler,
                   started, mapUp, requests, response, assignLog>>

\* the response is taken
Answered ==
    /\ call # Idle
    /\ call' = Idle
    /\ UNCHANGED <<GRAPH, HAZARD_MAP, STAFF_TRACKER, serviceVars>>

MultiDispatchInit ==
    /\ GRAPH \in {Graph(t.nodes, t.edges) : t \in Topologies}
    /\ HAZARD_MAP = NewHazardMap
    /\ STAFF_TRACKER = NewStaffTracker
    /\ route_handler = None
    /\ emergency_handler = EmergencyAPIHandler(GRAPH, HAZARD_MAP, STAFF_TRACKER)
    /\ hazard_handler = None
    /\ started = FALSE /\ mapUp = FALSE /\ requests = EmptyBag /\ response = None
    /\ assignLog = EmptyMap
    /\ call = Idle

MultiDispatchNext ==
    \/ RegisterStaff
    \/ SetStatus
    \/ AssignMultiple
    \/ AssignNearest
    \/ Answered

MultiDispatchSpec == MultiDispatchInit /\ [][MultiDispatchNext]_vars

\* C27: a staff member returned by a multi-responder dispatch is not
\* returned by any later dispatch request, for one responder or for
\* several, until their status has been set back to AVAILABLE.
C27_MultiDispatchedNotReturnedAgain ==
    [][call = Idle /\ call'.op \in {"assign_multiple", "assign_nearest"}
         => \A j \in DOMAIN call'.staff_ids : call'.staff_ids[j] \notin DOMAIN assignLog]_vars

----------------------------------------------------------------------------
(* Reload *)

\* this step is POST /api/reload answering 200
ReloadSucceeds ==
    /\ BagCardinality(requests') < BagCardinality(requests)
    /\ response'.kind = "reload"
    /\ response'.status = 200

\* every closure and hazard of hazard map a is held by hazard map b
HazardsKept(a, b) ==
    /\ a.closures \subseteq b.closures
    /\ \A n \in DOMAIN a.node_hazards :
          n \in DOMAIN b.node_hazards /\ b.node_hazards[n] = a.node_hazards[n]
    /\ \A e \in DOMAIN a.edge_hazards :
          e \in DOMAIN b.edge_hazards /\ b.edge_hazards[e] = a.edge_hazards[e]

\* C24: a successful POST /api/reload changes only the graph: every staff
\* record the tracker held is held unchanged afterwards (id, role, position
\* and status, RESPONDING staying RESPONDING), and every closure and hazard
\* of the HazardMap is still held.
C24_ReloadKeepsStaffAndHazards ==
    [][ReloadSucceeds
         => /\ STAFF_TRACKER # None
               => \A i \in DOMAIN STAFF_TRACKER.staff :
                     \E j \in DOMAIN STAFF_TRACKER'.staff :
                        STAFF_TRACKER'.staff[j] = STAFF_TRACKER.staff[i]
            /\ HAZARD_MAP # None => HazardsKept(HAZARD_MAP, HAZARD_MAP')]_vars

\* the half of C24 about the HazardMap alone
ReloadKeepsHazards ==
    [][ReloadSucceeds /\ HAZARD_MAP # None => HazardsKept(HAZARD_MAP, HAZARD_MAP')]_vars

----------------------------------------------------------------------------
(* event_processor.py: the event processor, a process of its own that      *)
(* subscribes to the bus (stadium/#) and turns events into HTTP requests    *)
(* to the services.  paho calls on_message for one message after the       *)
(* other on its network thread.  Of the services only the Routing Service  *)
(* is modelled, by the two endpoints the processor posts to; the processor *)
(* keeps counters (event_count, processed) that only feed its log output   *)
(* and are left out.                                                       *)

\* the values json.loads returns
JNull == [type |-> "null"]

JString(s) == [type |-> "str", str |-> s]

JNumber(n) == [type |-> "number", number |-> n]

JBool(b) == [type |-> "bool", bool |-> b]

JArray(items) == [type |-> "list", items |-> items]

JObject(fields) == [type |-> "dict", fields |-> fields]

\* msg.payload: bytes that are not UTF-8, or the UTF-8 encoding of a text
\* that is not a JSON document, or of the JSON document of a value
BadBytes == [bytes |-> "invalid"]

BadText == [bytes |-> "utf-8", document |-> [syntax |-> "invalid"]]

Dumps(value) == [bytes |-> "utf-8", document |-> [syntax |-> "json", value |-> value]]

\* msg.payload.decode("utf-8")
decode(payload) ==
    IF payload.bytes = "utf-8" THEN [raised |-> FALSE, text |-> payload.document]
    ELSE [raised |-> TRUE]

\* json.loads(payload)
json_loads(text) ==
    IF text.syntax = "json" THEN [raised |-> FALSE, value |-> text.value]
    ELSE [raised |-> TRUE]

\* dict.get(key, default)
get(object, key, default) ==
    IF key \in DOMAIN object.fields THEN object.fields[key] ELSE default

\* bool(value)
truthy(v) ==
    CASE v.type = "null" -> FALSE
      [] v.type = "str" -> v.str # ""
      [] v.type = "number" -> v.number # 0
      [] v.type = "bool" -> v.bool
      [] v.type = "list" -> v.items # << >>
      [] v.type = "dict" -> DOMAIN v.fields # {}

\* value == "text"
IsString(v, text) == v.type = "str" /\ v.str = text

\* what one of the processor's requests to the Routing Service came to:
\* not sent, lost (requests raised: no connection, timeout), or answered
NotSent == [sent |-> FALSE]

Lost == [sent |-> TRUE, answered |-> FALSE]

Replied(status) == [sent |-> TRUE, answered |-> TRUE, status |-> status]

\* main.py update_crowd: POST /api/hazards/crowd?node_id=..&occupancy_rate=..
\* (requests leaves a parameter whose value is None out of the query)
update_crowd(handler, hm, node_id, occupancy_rate) ==
    IF node_id.type = "null" \/ occupancy_rate < 0 \/ occupancy_rate > 100
    THEN [status |-> 422, hazard_map |-> hm]
    ELSE IF handler = None THEN [status |-> 500, hazard_map |-> hm]
    ELSE [status |-> 200,
          hazard_map |-> set_crowd_penalty(hm, node_id.str, occupancy_rate)]

\* main.py add_closure: POST /api/hazards/closure?from_node=..&to_node=..
post_closure(handler, hm, from_node, to_node) ==
    IF handler = None THEN [status |-> 500, hazard_map |-> hm]
    ELSE [status |-> 200, hazard_map |-> add_closure(hm, from_node.str, to_node.str)]

\* a handler returned or raised; hm is the Routing Service's HazardMap
\* afterwards and routing what its request to the Routing Service came to
Handled(raised, hm, routing) == [raised |-> raised, hazard_map |-> hm, routing |-> routing]

\* EventProcessor.handle_crowd_density
handle_crowd_density(event, handler, hm, reachable) ==
    LET area_id == get(event, "area_id", JNull)
        reported == get(event, "occupancy_rate", JNumber(0))
    IN  IF reported.type # "number" THEN Handled(TRUE, hm, NotSent)
        ELSE LET occupancy_rate == Min(reported.number, 100)
             IN  IF occupancy_rate > 50
                 THEN IF ~reachable THEN Handled(FALSE, hm, Lost)
                      ELSE LET reply == update_crowd(handler, hm, area_id,
                                                     occupancy_rate)
                           IN  Handled(FALSE, reply.hazard_map, Replied(reply.status))
                 ELSE Handled(FALSE, hm, NotSent)

\* EventProcessor.handle_evacuation; the request to the Map Service that
\* follows the one to the Routing Service is inside the same try
handle_evacuation(event, handler, hm, reachable) ==
    LET closure == get(event, "closure", JObject(EmptyMap))
    IN  IF closure.type # "dict" THEN Handled(TRUE, hm, NotSent)
        ELSE LET from_node == get(closure, "from_node", JNull)
                 to_node == get(closure, "to_node", JNull)
             IN  IF ~truthy(from_node) \/ ~truthy(to_node)
                 THEN Handled(FALSE, hm, NotSent)
                 ELSE IF ~reachable THEN Handled(FALSE, hm, Lost)
                 ELSE LET reply == post_closure(handler, hm, from_node, to_node)
                      IN  Handled(FALSE, reply.hazard_map, Replied(reply.status))

\* EventProcessor.handle_sos_event: event.get("details", "").lower() raises
\* for details that are not a string; its requests go to the Emergency Service
handle_sos_event(event, hm) ==
    Handled(get(event, "details", JString("")).type # "str", hm, NotSent)

\* EventProcessor.handle_bin_alert: fill_percentage < 85 raises for a value
\* that is not a number; its request goes to the Maintenance Service
handle_bin_alert(event, hm) ==
    Handled(get(event, "fill_percentage", JNumber(0)).type \notin {"number", "bool"},
            hm, NotSent)

\* EventProcessor.handle_gate_passage: "gate_id not in self.queue_observations"
\* raises for an unhashable gate_id; its request goes to the Queueing Service
handle_gate_passage(event, hm) ==
    Handled(get(event, "gate_id", JNull).type \in {"list", "dict"}, hm, NotSent)

\* EventProcessor.handle_queue_update: location_type.lower() raises for a
\* value that is not a string; its request goes to the Queueing Service
handle_queue_update(event, hm) ==
    Handled(get(event, "location_type", JString("service")).type # "str", hm, NotSent)

\* process_event returned: the handler it called ("" for none), whether the
\* handler raised, and what the handler left
Processed(handler_name, handled) ==
    [handler |-> handler_name, raised |-> handled.raised,
     hazard_map |-> handled.hazard_map, routing |-> handled.routing]

\* process_event calling handle_evacuation for every event with a closure
process_event_by_fields(event, handler, hm, reachable) ==
    IF "closure" \in DOMAIN event.fields
    THEN Processed("evac_update", handle_evacuation(event, handler, hm, reachable))
    ELSE Processed("", Handled(FALSE, hm, NotSent))

\* EventProcessor.process_event: an exception of a handler is caught and printed
process_event(event, handler, hm, reachable) ==
    LET event_type == get(event, "event_type", JNull)
    IN  IF ~truthy(event_type) THEN Processed("", Handled(FALSE, hm, NotSent))
        ELSE IF IsString(event_type, "gate_passage")
        THEN Processed("gate_passage", handle_gate_passage(event, hm))
        ELSE IF IsString(event_type, "bin_alert")
        THEN Processed("bin_alert", handle_bin_alert(event, hm))
        ELSE IF IsString(event_type, "sos_event")
        THEN Processed("sos_event", handle_sos_event(event, hm))
        ELSE IF IsString(event_type, "crowd_density")
        THEN Processed("crowd_density", handle_crowd_density(event, handler, hm, reachable))
        ELSE IF IsString(event_type, "evac_update")
        THEN Processed("evac_update", handle_evacuation(event, handler, hm, reachable))
        ELSE IF IsString(event_type, "queue_update")
        THEN Processed("queue_update", handle_queue_update(event, hm))
        ELSE Processed("", Handled(FALSE, hm, NotSent))

\* on_message returned or let an exception escape
Delivered(escaped, event, processed) ==
    [escaped |-> escaped, event |-> event, handler |-> processed.handler,
     raised |-> processed.raised, hazard_map |-> processed.hazard_map,
     routing |-> processed.routing]

\* MQTTEventClient.on_message: event is the dict handed to process_event,
\* None when there was none
on_message(payload, handler, hm, reachable) ==
    LET nothing == Processed("", Handled(FALSE, hm, NotSent))
        decoded == decode(payload)
    IN  IF decoded.raised THEN Delivered(FALSE, None, nothing)
        ELSE LET loaded == json_loads(decoded.text)
             IN  IF loaded.raised THEN Delivered(FALSE, None, nothing)
                 ELSE IF loaded.value.type # "dict" THEN Delivered(FALSE, None, nothing)
                 ELSE Delivered(FALSE, loaded.value,
                                process_event(loaded.value, handler, hm, reachable))

\* the events published on the bus
CrowdDensity(area_id, occupancy_rate) ==
    JObject([event_type |-> JString("crowd_density"), area_id |-> area_id,
             occupancy_rate |-> occupancy_rate])

EvacUpdate(closure) ==
    JObject([event_type |-> JString("evac_update"), closure |-> closure])

Closure(from_node, to_node, closed) ==
    JObject([from_node |-> JString(from_node), to_node |-> JString(to_node),
             reason |-> JString("smoke"), closed |-> JBool(closed)])

EventInputs ==
    {CrowdDensity(JString("D"), JNumber(p)) : p \in {40, 50, 65, 90, 150}}
    \cup {CrowdDensity(JString("D"), JString("high")),
          CrowdDensity(JNull, JNumber(90)),
          EvacUpdate(Closure("A", "B", TRUE)),
          EvacUpdate(Closure("C", "D", FALSE)),
          EvacUpdate(JString("A-B")),
          EvacUpdate(JObject([from_node |-> JString("A"), closed |-> JBool(TRUE)])),
          JObject([event_type |-> JString("sos_event"), details |-> JNumber(7)]),
          JObject([event_type |-> JString("sos_event"), details |-> JString("faint")]),
          JObject([event_type |-> JString("bin_alert"), fill_percentage |-> JString("full")]),
          JObject([event_type |-> JString("gate_passage"), gate_id |-> JArray(<<1>>)]),
          JObject([event_type |-> JString("queue_update"), location_type |-> JNull]),
          JObject([event_type |-> JString("fireworks"),
                   closure |-> Closure("C", "D", TRUE)]),
          JObject([area_id |-> JString("D"), occupancy_rate |-> JNumber(90)]),
          JObject([event_type |-> JString(""), closure |-> Closure("C", "D", TRUE)])}

\* the payloads of the messages delivered to on_message
PayloadInputs ==
    {BadBytes, BadText, Dumps(JArray(<<1>>)), Dumps(JString("evac_update"))}
    \cup {Dumps(event) : event \in EventInputs}

\* paho delivers a message: on_message runs to its end.  The Routing Service
\* can be reached or not while it runs.
OnMessage ==
    /\ call = Idle
    /\ \E payload \in PayloadInputs, reachable \in BOOLEAN :
         LET o == on_message(payload, hazard_handler, HAZARD_MAP, reachable)
         IN  /\ call' = [op |-> "on_message", payload |-> payload,
                         escaped |-> o.escaped, event |-> o.event,
                         handler |-> o.handler, raised |-> o.raised,
                         routing |-> o.routing]
             /\ HAZARD_MAP' = o.hazard_map
    /\ UNCHANGED <<GRAPH, STAFF_TRACKER, serviceVars>>

\* on_message returned: the network loop goes on to the next message
LoopGoesOn ==
    /\ call # Idle
    /\ ~call.escaped
    /\ call' = Idle
    /\ UNCHANGED <<GRAPH, HAZARD_MAP, STAFF_TRACKER, serviceVars>>

\* the Routing Service has started, with or without a graph (its
\* hazard_handler exists only with one); the processor is connected
EventInit ==
    /\ GRAPH \in {None, Graph(SquareTopology.nodes, SquareTopology.edges)}
    /\ HAZARD_MAP = NewHazardMap
    /\ STAFF_TRACKER = None
    /\ route_handler = None /\ emergency_handler = None
    /\ hazard_handler = IF GRAPH = None THEN None ELSE HazardAPIHandler(HAZARD_MAP)
    /\ started = TRUE /\ mapUp = FALSE /\ requests = EmptyBag /\ response = None
    /\ assignLog = EmptyMap
    /\ call = Idle

EventNext ==
    \/ OnMessage
    \/ LoopGoesOn

EventSpec == EventInit /\ [][EventNext]_vars

----------------------------------------------------------------------------
(* Event processor claims *)

KnownEventTypes == {"gate_passage", "bin_alert", "sos_event", "crowd_density",
                    "evac_update", "queue_update"}

\* this step is on_message running for one message
MessageHandled == call = Idle /\ call'.op = "on_message"

\* the message of on_message call c is not valid JSON (or not UTF-8), is not
\* a JSON object, has no event_type or an unknown one, or made its handler raise
BadMessage(c) ==
    \/ c.payload.bytes # "utf-8"
    \/ c.payload.document.syntax # "json"
    \/ c.payload.document.value.type # "dict"
    \/ "event_type" \notin DOMAIN c.payload.document.value.fields
    \/ c.payload.document.value.fields["event_type"].type # "str"
    \/ c.payload.document.value.fields["event_type"].str \notin KnownEventTypes
    \/ c.raised

\* C22: a message that is not valid JSON, is not a JSON object, has no
\* event_type, has an unknown event_type or makes its handler raise causes
\* no request to the Routing Service and leaves its closures and hazards as
\* they were; no exception leaves on_message, so the network loop goes on
\* to the messages that follow.
C22_BadMessagesAreSwallowed ==
    [][MessageHandled /\ BadMessage(call')
         => /\ HAZARD_MAP' = HAZARD_MAP
            /\ call'.routing = NotSent
            /\ ~call'.escaped]_vars

\* a handler raised while the Routing Service held a closure and a crowd
\* hazard that earlier messages had caused
C22_Witness ==
    /\ call.op = "on_message" /\ call.raised /\ ~call.escaped
    /\ HAZARD_MAP.closures # {}
    /\ DOMAIN HAZARD_MAP.node_hazards # {}

\* the crowd severity a HazardMap holds for a node, 0 when it holds none
SeverityHeld(hm, node_id) ==
    IF node_id \in DOMAIN hm.node_hazards /\ "crowd" \in DOMAIN hm.node_hazards[node_id]
    THEN hm.node_hazards[node_id]["crowd"]
    ELSE 0

\* on_message call c handled a crowd_density event for an area, and the
\* Routing Service accepted the update if one was sent
CrowdEventAccepted(c) ==
    /\ c.handler = "crowd_density" /\ ~c.raised
    /\ c.event.fields["area_id"].type = "str"
    /\ c.routing = NotSent \/ c.routing = Replied(200)

\* C29: after the event processor handled a crowd_density event (the update
\* accepted by the Routing Service), the crowd severity the HazardMap holds
\* for the area is the ramp value of the event's occupancy rate, whatever
\* events came before; for an occupancy of 50% or less the area's crowd
\* penalty is 0.
C29_LastCrowdEventDecides ==
    [][MessageHandled /\ CrowdEventAccepted(call')
         => LET area_id == call'.event.fields["area_id"].str
                occupancy_rate == call'.event.fields["occupancy_rate"].number
            IN  /\ SeverityHeld(HAZARD_MAP', area_id) = Ramp(occupancy_rate)
                /\ occupancy_rate <= 50
                      => HazardValue("crowd") * SeverityHeld(HAZARD_MAP', area_id) = 0]_vars

\* C30: a corridor becomes closed in the Routing Service through the event
\* processor only by an evac_update event whose closure.closed is true.
C30_OnlyClosedEventsClose ==
    [][MessageHandled /\ HAZARD_MAP'.closures # HAZARD_MAP.closures
         => /\ call'.handler = "evac_update"
            /\ get(call'.event.fields["closure"], "closed", JNull) = JBool(TRUE)]_vars

=============================================================================
